---- MODULE Spec2Model ----
(***************************************************************************)
(* A model of TheWebsite's client-side scripts:                            *)
(*   - the template engine (templates.js and js/templates.js): the scan    *)
(*     for t_ insertion points, the concurrent fetches, the injection and  *)
(*     the layout rendering with its delayed re-scan;                      *)
(*   - the blog router: initBlogRouter, loadMarkdownFile and               *)
(*     getAvailableArticles.                                               *)
(*                                                                         *)
(* Strings the code inspects character by character (class and id          *)
(* attributes, path names, query strings, article file names) are          *)
(* sequences of one-character strings.  HTML text is a sequence of tokens  *)
(* (open tag, close tag, text piece); the DOM is a forest of nodes, and    *)
(* Parse / Serialize convert between the two.                              *)
(***************************************************************************)
EXTENDS Integers, Sequences, FiniteSets, TLC

VARIABLES
    script,      \* which copy of the template script the page includes
    pathname,    \* window.location.pathname
    flaky,       \* whether the network may fail a request for a resource that exists
    templates,   \* the template resources the server holds: name -> HTML text
    page,        \* the HTML text of the page as served
    doc,         \* the live document: the nodes under document.documentElement
    domReady,    \* DOMContentLoaded has been dispatched
    timers,      \* pending setTimeout callbacks that call loadAllTemplates
    passes,      \* the template name set of each loadAllTemplates call so far
    loads,       \* the loadTemplate calls so far: [pass, name, st]
    fetches,     \* the fetch(templatePath) calls so far, in order: [pass, path,
                 \* gen], gen the number of document replacements before the call
    calls,       \* direct calls of loadAllTemplates made after the pipeline came to rest
    prevDoc,     \* the document at the moment of the latest such direct call
    replaced,    \* number of times a layout render replaced the document
    \* renderLayoutTemplate on its own
    layTemplate, \* templateContent: the text of layout.html
    layElement,  \* element: the <t_layout> insertion point
    layRendered, \* renderedContent
    layDoc,      \* the nodes under document.documentElement
    layTimers,   \* pending 50 ms timers
    layPc,       \* "call" before renderLayoutTemplate runs, "done" after
    \* the blog router
    location,      \* window.location: [pathname, search]
    knownArticles, \* the registry of getAvailableArticles
    now,           \* the clock, as new Date() reads it
    testFiles,     \* the articles the server holds under /test/
    flakyNet,      \* whether the network may fail a request
    readyState,    \* document.readyState when the script was evaluated
    blogDomReady,  \* DOMContentLoaded has been dispatched
    blogTimers,    \* pending setTimeout callbacks that call initBlogRouter
    runs,          \* the runs of initBlogRouter so far
    requests,      \* the fetches issued so far: [run, method, path]
    checks,        \* the presence checks that have settled: [run, i, outcome]
    blogPage,      \* the regions of the page the router reads and writes
    \* the deployment script
    argv,          \* the positional parameters ($1, $2, ...) not yet shifted away
    shell,         \* the shell variables BUCKET_NAME, AWS_REGION, PROFILE_NAME, LOCAL_DIR
    hasAws,        \* whether `command -v aws` finds the AWS CLI
    shPc,          \* the function main is about to call, or "parse", or "exited"
    shExit,        \* the exit status of the script (-1 while it runs)
    shEnded        \* what ended the script

tplVars == <<script, pathname, flaky, templates, page, doc, domReady, timers,
             passes, loads, fetches, calls, prevDoc, replaced>>

layVars == <<layTemplate, layElement, layRendered, layDoc, layTimers, layPc>>

blogVars == <<location, knownArticles, now, testFiles, flakyNet, readyState,
              blogDomReady, blogTimers, runs, requests, checks, blogPage>>

shVars == <<argv, shell, hasAws, shPc, shExit, shEnded>>

vars == <<tplVars, layVars, blogVars, shVars>>

ShIdle ==
    /\ argv = <<>>
    /\ shell = <<>>
    /\ hasAws = FALSE
    /\ shPc = "idle"
    /\ shExit = -1
    /\ shEnded = ""

BlogIdle ==
    /\ location = <<>>
    /\ knownArticles = <<>>
    /\ now = <<>>
    /\ testFiles = {}
    /\ flakyNet = FALSE
    /\ readyState = ""
    /\ blogDomReady = FALSE
    /\ blogTimers = 0
    /\ runs = {}
    /\ requests = {}
    /\ checks = {}
    /\ blogPage = <<>>

\* The variables of a part of the site that a specification leaves out.
LayIdle ==
    /\ layTemplate = <<>>
    /\ layElement = <<>>
    /\ layRendered = <<>>
    /\ layDoc = <<>>
    /\ layTimers = 0
    /\ layPc = "idle"

TplIdle ==
    /\ script = ""
    /\ pathname = <<>>
    /\ flaky = FALSE
    /\ templates = <<>>
    /\ page = <<>>
    /\ doc = <<>>
    /\ domReady = FALSE
    /\ timers = 0
    /\ passes = <<>>
    /\ loads = {}
    /\ fetches = <<>>
    /\ calls = 0
    /\ prevDoc = <<>>
    /\ replaced = 0

-----------------------------------------------------------------------------
(* Character strings *)

Lower == <<"a","b","c","d","e","f","g","h","i","j","k","l","m",
           "n","o","p","q","r","s","t","u","v","w","x","y","z">>
Upper == <<"A","B","C","D","E","F","G","H","I","J","K","L","M",
           "N","O","P","Q","R","S","T","U","V","W","X","Y","Z">>
Digits == <<"0","1","2","3","4","5","6","7","8","9">>

Range(s) == {s[i] : i \in 1..Len(s)}

\* \w of a JavaScript regular expression: [A-Za-z0-9_]
IsWordChar(c) == c \in Range(Lower) \cup Range(Upper) \cup Range(Digits) \cup {"_"}

\* \d
IsDigit(c) == c \in Range(Digits)

\* String.prototype.startsWith
StartsWith(s, p) == Len(s) >= Len(p) /\ SubSeq(s, 1, Len(p)) = p

\* String.prototype.includes, as the attribute selector [attr*="..."] uses it
Contains(s, p) == \E i \in 1..(Len(s) - Len(p) + 1) : SubSeq(s, i, i + Len(p) - 1) = p

\* String.prototype.substring(n): the string from (0-based) index n on
Substring(s, n) == SubSeq(s, n + 1, Len(s))

\* s.split('/').length: one more than the number of '/' in s
SplitLength(s) == Cardinality({i \in 1..Len(s) : s[i] = "/"}) + 1

t_ == <<"t","_">>
s_header  == <<"h","e","a","d","e","r">>
s_footer  == <<"f","o","o","t","e","r">>
s_nav     == <<"n","a","v">>
s_sidebar == <<"s","i","d","e","b","a","r">>
s_layout  == <<"l","a","y","o","u","t">>
s_banner  == <<"b","a","n","n","e","r">>
s_div     == <<"d","i","v">>
s_main    == <<"m","a","i","n">>

-----------------------------------------------------------------------------
(* HTML text and the DOM *)

NoAttr == [has |-> FALSE, v |-> <<>>]
Attr(v) == [has |-> TRUE, v |-> v]
NoData == [title |-> NoAttr, head |-> NoAttr, scripts |-> NoAttr]

\* A token of HTML text.  A text piece is named by v; arg is the string a
\* template literal interpolated into it (empty when there is none).
TxtArg(v, arg) ==
    [k |-> "text", tag |-> <<>>, cls |-> <<>>, id |-> <<>>, data |-> NoData, v |-> v,
     arg |-> arg]
Txt(v) == TxtArg(v, <<>>)
Open(tag, cls, id, data) ==
    [k |-> "open", tag |-> tag, cls |-> cls, id |-> id, data |-> data, v |-> "",
     arg |-> <<>>]
Close ==
    [k |-> "close", tag |-> <<>>, cls |-> <<>>, id |-> <<>>, data |-> NoData, v |-> "",
     arg |-> <<>>]

\* <tag></tag> with nothing inside, and <tag>text</tag>
Tag(tag) == <<Open(tag, <<>>, <<>>, NoData), Close>>
TagWith(tag, inner) == <<Open(tag, <<>>, <<>>, NoData)>> \o inner \o <<Close>>

TextNode(t) ==
    [k |-> "text", tag |-> <<>>, cls |-> <<>>, id |-> <<>>, data |-> NoData, v |-> t.v,
     arg |-> t.arg, kids |-> <<>>]
Element(t, kids) ==
    [k |-> "el", tag |-> t.tag, cls |-> t.cls, id |-> t.id, data |-> t.data, v |-> "",
     arg |-> <<>>, kids |-> kids]

\* The parser from token i on: the sibling nodes up to the close tag that
\* ends them (or the end of the text, where the parser closes what is still
\* open), and the index of the token after.  (A result that is used twice
\* is bound once, so that it is evaluated a single time.)
RECURSIVE ParseSiblings(_, _)
ParseSiblings(toks, i) ==
    IF i > Len(toks) THEN [nodes |-> <<>>, next |-> i]
    ELSE IF toks[i].k = "close" THEN [nodes |-> <<>>, next |-> i + 1]
    ELSE IF toks[i].k = "text"
    THEN CHOOSE r \in {[nodes |-> <<TextNode(toks[i])>> \o rest.nodes,
                        next  |-> rest.next] :
                       rest \in {ParseSiblings(toks, i + 1)}} : TRUE
    ELSE CHOOSE r \in UNION {{[nodes |-> <<Element(toks[i], inner.nodes)>> \o rest.nodes,
                               next  |-> rest.next] :
                              rest \in {ParseSiblings(toks, inner.next)}} :
                             inner \in {ParseSiblings(toks, i + 1)}} : TRUE

\* The top level: a close tag with no open element is dropped.
RECURSIVE ParseFrom(_, _)
ParseFrom(toks, i) ==
    IF i > Len(toks) THEN <<>>
    ELSE CHOOSE r \in {s.nodes \o ParseFrom(toks, s.next) :
                       s \in {ParseSiblings(toks, i)}} : TRUE

\* The HTML parser, as the innerHTML setter runs it.
Parse(text) == CHOOSE r \in {ParseFrom(toks, 1) : toks \in {text}} : TRUE

\* The innerHTML getter: the markup of a node list.
RECURSIVE Serialize(_)
Serialize(nodes) ==
    IF nodes = <<>> THEN <<>>
    ELSE LET n == Head(nodes)
         IN  (IF n.k = "text" THEN <<TxtArg(n.v, n.arg)>>
              ELSE <<Open(n.tag, n.cls, n.id, n.data)>> \o Serialize(n.kids) \o <<Close>>)
             \o Serialize(Tail(nodes))

\* Every element of a forest, in document order (querySelectorAll('*')).
RECURSIVE Elements(_)
Elements(nodes) ==
    IF nodes = <<>> THEN <<>>
    ELSE LET n == Head(nodes)
         IN  (IF n.k = "el" THEN <<n>> \o Elements(n.kids) ELSE <<>>)
             \o Elements(Tail(nodes))

-----------------------------------------------------------------------------
(* The scanner: the template name set of loadAllTemplates *)

\* String.prototype.toLowerCase, one character
LowerChar(c) ==
    IF c \in Range(Upper) THEN Lower[CHOOSE i \in 1..Len(Upper) : Upper[i] = c] ELSE c
ToLowerCase(s) == [i \in 1..Len(s) |-> LowerChar(s[i])]

\* The last index of the run of word characters that starts at index j.
WordEnd(s, j) ==
    CHOOSE e \in j..Len(s) :
        /\ \A x \in j..e : IsWordChar(s[x])
        /\ (e = Len(s) \/ ~IsWordChar(s[e + 1]))

\* className.match(/t_(\w+)/g): every match, left to right, each as long as
\* it can be, the search resuming after the match.
RECURSIVE MatchAll(_, _)
MatchAll(s, i) ==
    IF i + 2 > Len(s) THEN <<>>
    ELSE IF s[i] = "t" /\ s[i + 1] = "_" /\ IsWordChar(s[i + 2])
    THEN LET e == WordEnd(s, i + 2)
         IN  <<SubSeq(s, i, e)>> \o MatchAll(s, e + 1)
    ELSE MatchAll(s, i + 1)

\* document.querySelectorAll('[class*="t_"], [id*="t_"]')
TemplateTags(d) ==
    SelectSeq(Elements(d), LAMBDA n : Contains(n.cls, t_) \/ Contains(n.id, t_))

\* The names the class attributes give: match.substring(2) of every match.
ClassNames(d) ==
    UNION {{Substring(m, 2) : m \in Range(MatchAll(n.cls, 1))} :
           n \in {x \in Range(TemplateTags(d)) : x.cls # <<>>}}

\* The names the id attributes give: id.substring(2) when id starts with t_.
IdNames(d) ==
    {Substring(n.id, 2) :
     n \in {x \in Range(TemplateTags(d)) : x.id # <<>> /\ StartsWith(x.id, t_)}}

\* The tag names of the selector 't_header, t_footer, t_nav, t_sidebar, t_layout'
RecognizedTags == {t_ \o s_header, t_ \o s_footer, t_ \o s_nav, t_ \o s_sidebar,
                   t_ \o s_layout}

\* The names the custom elements give.
CustomNames(d) ==
    {Substring(ToLowerCase(n.tag), 2) :
     n \in {x \in Range(Elements(d)) :
            x.tag \in RecognizedTags /\ StartsWith(ToLowerCase(x.tag), t_)}}

\* templateNames at the end of the scan
ScanNames(d) == ClassNames(d) \cup IdNames(d) \cup CustomNames(d)

\* The arguments of the templateNames.add calls of templateTags.forEach, in
\* the order of the calls: for each tag its class matches, then its id.
RECURSIVE AddedByTags(_)
AddedByTags(tags) ==
    CHOOSE r \in
        {IF t = <<>> THEN <<>>
         ELSE CHOOSE a \in
                  {[i \in 1..Len(classMatches) |-> Substring(classMatches[i], 2)]
                   \o (IF Head(t).id # <<>> /\ StartsWith(Head(t).id, t_)
                       THEN <<Substring(Head(t).id, 2)>> ELSE <<>>)
                   \o AddedByTags(Tail(t)) :
                   classMatches \in {IF Head(t).cls # <<>> THEN MatchAll(Head(t).cls, 1)
                                     ELSE <<>>}} : TRUE :
         t \in {tags}} : TRUE

\* the arguments of the add calls of customElements.forEach
AddedByCustomElements(d) ==
    CHOOSE r \in
        {[i \in 1..Len(customElements) |-> Substring(ToLowerCase(customElements[i].tag), 2)] :
         customElements \in {SelectSeq(Elements(d),
                                       LAMBDA x : x.tag \in RecognizedTags
                                                  /\ StartsWith(ToLowerCase(x.tag), t_))}} : TRUE

\* Array.from(templateNames), were templateNames an array that takes every
\* value pushed.
ArrayOfAll(added) == added

\* Array.from(templateNames): a Set keeps a value once, at the place of its
\* first add.
RECURSIVE ArrayFromSet(_)
ArrayFromSet(added) ==
    IF added = <<>> THEN <<>>
    ELSE CHOOSE r \in {IF added[Len(added)] \in Range(first) THEN first
                       ELSE Append(first, added[Len(added)]) :
                       first \in {ArrayFromSet(SubSeq(added, 1, Len(added) - 1))}} : TRUE

\* the names loadPromises has a loadTemplate call for, in order
LoadPromises(d) ==
    ArrayFromSet(AddedByTags(TemplateTags(d)) \o AddedByCustomElements(d))

-----------------------------------------------------------------------------
(* Fetching a template *)

\* isInSubdirectory: currentPath.split('/').length > 2
IsInSubdirectory(path) == SplitLength(path) > 2

\* templatePath.  The copy in the site root always asks for
\* templates/<name>.html; the copy in js/ asks for ../templates/<name>.html
\* on a page in a subdirectory.
TemplatePath(name) ==
    [up   |-> script = "js/templates.js" /\ IsInSubdirectory(pathname),
     file |-> name]

\* The directory depth of the page: 0 for /index.html, 1 for /about/index.html.
DirDepth(path) == SplitLength(path) - 2

\* The browser resolves the relative path against the page's directory; the
\* templates are served from /templates/ only.
Served(path) ==
    /\ path.file \in DOMAIN templates
    /\ (IF path.up /\ DirDepth(pathname) > 0 THEN DirDepth(pathname) - 1
        ELSE DirDepth(pathname)) = 0

-----------------------------------------------------------------------------
(* Injection *)

\* querySelectorAll(`t_${templateName}`) throws a SyntaxError when the string
\* is no selector; a name of identifier characters makes a type selector.
SelectorValid(name) == \A i \in 1..Len(name) : IsWordChar(name[i]) \/ name[i] = "-"

\* The elements the type selector t_<name> matches (HTML tag names match
\* without regard to case).
Matches(n, name) == n.k = "el" /\ n.tag = ToLowerCase(t_ \o name)

QuerySelectorAll(d, name) == SelectSeq(Elements(d), LAMBDA n : Matches(n, name))

\* SetInnerHTML, were the content appended to what the element holds
\* (insertAdjacentHTML('beforeend', content)) instead of replacing it.
RECURSIVE AppendInnerHTML(_, _, _)
AppendInnerHTML(nodes, name, content) ==
    IF nodes = <<>> THEN <<>>
    ELSE LET n == Head(nodes)
         IN  <<IF Matches(n, name) THEN [n EXCEPT !.kids = n.kids \o Parse(content)]
               ELSE [n EXCEPT !.kids = AppendInnerHTML(n.kids, name, content)]>>
             \o AppendInnerHTML(Tail(nodes), name, content)

\* elements.forEach(element => element.innerHTML = content) over the static
\* list of matches: a match inside another match is detached by the time its
\* turn comes, so only the outermost matches show in the document.
RECURSIVE SetInnerHTML(_, _, _)
SetInnerHTML(nodes, name, content) ==
    IF nodes = <<>> THEN <<>>
    ELSE LET n == Head(nodes)
         IN  <<IF Matches(n, name) THEN [n EXCEPT !.kids = Parse(content)]
               ELSE [n EXCEPT !.kids = SetInnerHTML(n.kids, name, content)]>>
             \o SetInnerHTML(Tail(nodes), name, content)

\* adjustedContent: js/templates.js rewrites ../images/ to images/ on a page
\* of the root directory; the copy in the site root injects the text as is.
AdjustedContent(content) ==
    IF script = "js/templates.js" /\ ~IsInSubdirectory(pathname)
    THEN [i \in 1..Len(content) |->
            IF content[i].k = "text" /\ content[i].v = "../images/"
            THEN Txt("images/") ELSE content[i]]
    ELSE content

\* `<div class="template-error">Error loading template: ${templateName}</div>`
ErrorPlaceholder(name) ==
    <<Open(s_div, <<"t","e","m","p","l","a","t","e","-","e","r","r","o","r">>, <<>>, NoData),
      TxtArg("Error loading template: ", name),
      Close>>

-----------------------------------------------------------------------------
(* renderLayoutTemplate *)

\* The replacement patterns of String.prototype.replace: $$ inserts a "$",
\* $& inserts the matched text.
Expand(replacement, pattern) ==
    [i \in 1..Len(replacement) |->
        IF replacement[i].k = "text" /\ replacement[i].v = "$$" THEN Txt("$")
        ELSE IF replacement[i].k = "text" /\ replacement[i].v = "$&" THEN Txt(pattern)
        ELSE replacement[i]]

\* text.replace(pattern, replacement) with a string pattern: the first
\* occurrence only, and the text unchanged when there is none.
ReplaceFirst(text, pattern, replacement) ==
    LET hits == {i \in 1..Len(text) : text[i] = Txt(pattern)}
    IN  IF hits = {} THEN text
        ELSE LET i == CHOOSE x \in hits : \A y \in hits : x <= y
             IN  SubSeq(text, 1, i - 1) \o Expand(replacement, pattern)
                 \o SubSeq(text, i + 1, Len(text))

\* (the receiver and the replacement are bound once, so that each is
\* evaluated a single time)
Replace(text, pattern, replacement) ==
    CHOOSE r \in {ReplaceFirst(t, pattern, rep) : t \in {text}, rep \in {replacement}} :
        TRUE

\* element.getAttribute(name) || fallback: null and "" both give the fallback
OrDefault(attr, fallback) == IF attr.has /\ attr.v # <<>> THEN attr.v ELSE fallback

\* renderedContent
RenderedContent(element, templateContent) ==
    LET content == Serialize(element.kids)
        title   == OrDefault(element.data.title, <<Txt("Page")>>)
        head    == OrDefault(element.data.head, <<>>)
        scripts == OrDefault(element.data.scripts, <<>>)
    IN  Replace(Replace(Replace(Replace(templateContent,
            "{{title}}", title), "{{head}}", head), "{{content}}", content),
            "{{scripts}}", scripts)

-----------------------------------------------------------------------------
(* The pages and template resources the model is run on *)

s_class_sidebar == t_ \o s_sidebar
s_id_header     == t_ \o s_header

TitleX == [title |-> Attr(<<Txt("X")>>), head |-> NoAttr, scripts |-> NoAttr]

\* README, "Using Individual Templates"
PageIndividual ==
    Tag(t_ \o s_header) \o TagWith(s_main, <<Txt("X")>>) \o Tag(t_ \o s_footer)

\* README, "Using Layout Template"
PageLayout ==
    <<Open(t_ \o s_layout, <<>>, <<>>, TitleX)>> \o TagWith(<<"p">>, <<Txt("Y")>>)
    \o <<Close>>

\* README, "Template Types": the class, the id and the custom element
PageMixed ==
    <<Open(s_div, s_class_sidebar, <<>>, NoData), Txt("old"), Close,
      Open(s_div, <<>>, s_id_header, NoData), Txt("old"), Close>>
    \o TagWith(t_ \o s_nav, <<Txt("old")>>)

\* README, "Adding New Templates": a t_ tag for a new template
PageBanner == Tag(t_ \o s_banner) \o TagWith(t_ \o s_footer, <<Txt("old")>>)

\* an insertion point inside another
PageNested == TagWith(t_ \o s_sidebar, TagWith(t_ \o s_nav, <<Txt("old")>>))

\* a custom element beside the layout insertion point
PageLayoutBeside ==
    Tag(t_ \o s_header)
    \o <<Open(t_ \o s_layout, <<>>, <<>>, TitleX)>> \o TagWith(<<"p">>, <<Txt("Y")>>)
    \o <<Close>>

\* the same name at three insertion points
PageRepeated ==
    Tag(t_ \o s_footer) \o <<Open(s_div, t_ \o s_footer, <<>>, NoData), Close>>
    \o Tag(t_ \o s_footer)

\* two layout insertion points
PageTwoLayouts ==
    <<Open(t_ \o s_layout, <<>>, <<>>, TitleX)>> \o TagWith(<<"p">>, <<Txt("Y")>>)
    \o <<Close>>
    \o <<Open(t_ \o s_layout, <<>>, <<>>, TitleX)>> \o TagWith(<<"p">>, <<Txt("Z")>>)
    \o <<Close>>

\* an id that is no selector once prefixed, beside a custom element
PageOddId ==
    <<Open(s_div, <<>>, t_ \o <<"a","!">>, NoData), Close>> \o Tag(t_ \o s_header)

Pages == {PageIndividual, PageLayout, PageMixed, PageBanner, PageNested, PageOddId,
          PageRepeated, PageLayoutBeside, PageTwoLayouts}

LayoutHtml ==
    TagWith(<<"t","i","t","l","e">>, <<Txt("{{title}}")>>) \o <<Txt("{{head}}")>>
    \o Tag(t_ \o s_header) \o TagWith(s_main, <<Txt("{{content}}")>>)
    \o Tag(t_ \o s_footer) \o <<Txt("{{scripts}}")>>

TemplateNames == {s_layout, s_header, s_footer, s_nav, s_sidebar, s_banner}

\* templates/*.html with no insertion point inside header.html
PlainTemplates ==
    [n \in TemplateNames |->
        IF n = s_layout THEN LayoutHtml
        ELSE IF n = s_header THEN <<Txt("H"), Txt("../images/")>>
        ELSE IF n = s_footer THEN <<Txt("F")>>
        ELSE IF n = s_nav THEN <<Txt("N")>>
        ELSE IF n = s_sidebar THEN <<Txt("S")>>
        ELSE <<Txt("B")>>]

\* the same with a <t_nav> inside header.html
NestedTemplates ==
    [n \in TemplateNames |->
        IF n = s_header THEN <<Txt("H")>> \o Tag(t_ \o s_nav) ELSE PlainTemplates[n]]

\* the template files that may be absent from the server
MissingSets == {{}, {s_header}, {s_footer, s_nav}}

Restrict(f, S) == [x \in S |-> f[x]]

Pathnames == {<<"/">>, <<"/","a","b","o","u","t","/">>}

Scripts == {"templates.js", "js/templates.js"}

\* loadAllTemplates calls in all, and direct calls after the page came to rest
MaxPasses == 4
MaxCalls == 1

-----------------------------------------------------------------------------
(* The template engine's steps *)

Pending(c) == c.st \in {"fetch", "text"}

\* loadAllTemplates up to its await: the scan, and one loadTemplate call per
\* name, each of which issues its fetch at once.
LoadAllTemplates ==
    \E loadPromises \in {LoadPromises(doc)} :
        LET names == ScanNames(doc)
            p     == Len(passes) + 1
        IN  /\ passes' = Append(passes, names)
            /\ loads' = loads \cup {[pass |-> p, name |-> loadPromises[i], st |-> "fetch"] :
                                    i \in 1..Len(loadPromises)}
            /\ fetches' = fetches \o [i \in 1..Len(loadPromises) |->
                                         [pass |-> p, path |-> TemplatePath(loadPromises[i]),
                                          gen  |-> replaced]]

Settle(c, st) == loads' = (loads \ {c}) \cup {[c EXCEPT !.st = st]}

\* Catch, were a failure to abandon the other loads of its pass.
CatchAbandoningSiblings(c) ==
    /\ doc' = IF SelectorValid(c.name)
              THEN SetInnerHTML(doc, c.name, ErrorPlaceholder(c.name)) ELSE doc
    /\ loads' = {IF d = c
                 THEN [d EXCEPT !.st = IF SelectorValid(c.name) THEN "failed" ELSE "threw"]
                 ELSE IF d.pass = c.pass /\ Pending(d) THEN [d EXCEPT !.st = "threw"]
                 ELSE d : d \in loads}

\* The catch block of loadTemplate.
Catch(c) ==
    IF SelectorValid(c.name)
    THEN /\ doc' = SetInnerHTML(doc, c.name, ErrorPlaceholder(c.name))
         /\ Settle(c, "failed")
    ELSE /\ doc' = doc
         /\ Settle(c, "threw")

\* ForEachRender, were renderLayoutTemplate to write the rendered text into
\* the insertion point, which then stays in the document.
RenderIntoElement(elements, templateContent, d) ==
    IF elements = <<>> THEN d
    ELSE SetInnerHTML(d, s_layout, RenderedContent(Head(elements), templateContent))

\* elements.forEach(element => renderLayoutTemplate(element, templateContent)):
\* each element in turn replaces the whole document.
RECURSIVE ForEachRender(_, _, _)
ForEachRender(elements, templateContent, d) ==
    IF elements = <<>> THEN d
    ELSE ForEachRender(Tail(elements), templateContent,
                       Parse(RenderedContent(Head(elements), templateContent)))

\* the number of document replacements before loadTemplate call c began
GenerationOf(c) ==
    LET i == CHOOSE j \in 1..Len(fetches) :
                 fetches[j].pass = c.pass /\ fetches[j].path.file = c.name
    IN  fetches[i].gen

\* Inject, were the elements queried before the fetch: after a layout render
\* the list holds nodes of the replaced document, and what is written into
\* them does not show in the current one.
InjectIntoEarlierNodes(c) ==
    LET templateContent == templates[c.name]
        elements        == QuerySelectorAll(doc, c.name)
    IN  IF ~SelectorValid(c.name) THEN Catch(c) /\ UNCHANGED <<timers, replaced>>
        ELSE IF GenerationOf(c) < replaced
        THEN /\ UNCHANGED <<doc, timers, replaced>>
             /\ Settle(c, "done")
        ELSE IF c.name = s_layout
        THEN /\ doc' = ForEachRender(elements, templateContent, doc)
             /\ timers' = timers + Len(elements)
             /\ replaced' = replaced + Len(elements)
             /\ Settle(c, "done")
        ELSE /\ doc' = SetInnerHTML(doc, c.name, AdjustedContent(templateContent))
             /\ UNCHANGED <<timers, replaced>>
             /\ Settle(c, "done")

\* Inject, were renderLayoutTemplate to set no timer.
InjectWithoutRescan(c) ==
    LET templateContent == templates[c.name]
        elements        == QuerySelectorAll(doc, c.name)
    IN  /\ doc' = IF c.name = s_layout
                  THEN ForEachRender(elements, templateContent, doc)
                  ELSE SetInnerHTML(doc, c.name, AdjustedContent(templateContent))
        /\ replaced' = IF c.name = s_layout THEN replaced + Len(elements) ELSE replaced
        /\ timers' = timers
        /\ Settle(c, "done")

\* The try block of loadTemplate from querySelectorAll on.
Inject(c) ==
    LET templateContent == templates[c.name]
        elements        == QuerySelectorAll(doc, c.name)
    IN  IF ~SelectorValid(c.name) THEN Catch(c) /\ UNCHANGED <<timers, replaced>>
        ELSE IF c.name = s_layout
        THEN /\ doc' = ForEachRender(elements, templateContent, doc)
             /\ timers' = timers + Len(elements)
             /\ replaced' = replaced + Len(elements)
             /\ Settle(c, "done")
        ELSE /\ doc' = SetInnerHTML(doc, c.name, AdjustedContent(templateContent))
             /\ UNCHANGED <<timers, replaced>>
             /\ Settle(c, "done")

\* The browser dispatches DOMContentLoaded; the listener sets the 100 ms timer.
DOMContentLoaded ==
    /\ ~domReady
    /\ domReady' = TRUE
    /\ timers' = timers + 1
    /\ UNCHANGED <<layVars, blogVars, shVars>>
    /\ UNCHANGED <<script, pathname, flaky, templates, page, doc, passes, loads, fetches,
                   calls, prevDoc, replaced>>

\* A timer fires: the 100 ms one of the listener or a 50 ms one of
\* renderLayoutTemplate.  Both call loadAllTemplates.
TimerFires ==
    /\ timers > 0
    /\ Len(passes) < MaxPasses
    /\ timers' = timers - 1
    /\ LoadAllTemplates
    /\ UNCHANGED <<layVars, blogVars, shVars>>
    /\ UNCHANGED <<script, pathname, flaky, templates, page, doc, domReady,
                   calls, prevDoc, replaced>>

\* fetch resolves with response.ok.
FetchOk(c) ==
    /\ c.st = "fetch"
    /\ Served(TemplatePath(c.name))
    /\ Settle(c, "text")
    /\ UNCHANGED <<layVars, blogVars, shVars>>
    /\ UNCHANGED <<script, pathname, flaky, templates, page, doc, domReady, timers,
                   passes, fetches, calls, prevDoc, replaced>>

\* fetch rejects, or resolves with a status that is not ok: the catch block.
FetchFails(c) ==
    /\ c.st = "fetch"
    /\ ~Served(TemplatePath(c.name)) \/ flaky
    /\ Catch(c)
    /\ UNCHANGED <<layVars, blogVars, shVars>>
    /\ UNCHANGED <<script, pathname, flaky, templates, page, domReady, timers,
                   passes, fetches, calls, prevDoc, replaced>>

\* response.text() resolves: the rest of the try block runs.
TextResolves(c) ==
    /\ c.st = "text"
    /\ Inject(c)
    /\ UNCHANGED <<layVars, blogVars, shVars>>
    /\ UNCHANGED <<script, pathname, flaky, templates, page, domReady,
                   passes, fetches, calls, prevDoc>>

\* response.text() rejects (the connection drops): the catch block.
TextFails(c) ==
    /\ c.st = "text"
    /\ flaky
    /\ Catch(c)
    /\ UNCHANGED <<layVars, blogVars, shVars>>
    /\ UNCHANGED <<script, pathname, flaky, templates, page, domReady, timers,
                   passes, fetches, calls, prevDoc, replaced>>

Quiescent == domReady /\ timers = 0 /\ \A c \in loads : ~Pending(c)

\* A caller runs the pipeline again once the previous run has come to rest.
CallAgain ==
    /\ Quiescent
    /\ passes # <<>>
    /\ calls < MaxCalls
    /\ Len(passes) < MaxPasses
    /\ calls' = calls + 1
    /\ prevDoc' = doc
    /\ LoadAllTemplates
    /\ UNCHANGED <<layVars, blogVars, shVars>>
    /\ UNCHANGED <<script, pathname, flaky, templates, page, doc, domReady, timers,
                   replaced>>

Init ==
    /\ script \in Scripts
    /\ pathname \in Pathnames
    /\ flaky \in BOOLEAN
    /\ page \in Pages
    \* the pages with a load beside the layout and with two layouts are
    \* opened at the site root by js/templates.js, over the plain templates
    /\ \E base \in {PlainTemplates, NestedTemplates}, missing \in MissingSets :
           /\ page \in {PageLayoutBeside, PageTwoLayouts}
                  => /\ script = "js/templates.js"
                     /\ pathname = <<"/">>
                     /\ base = PlainTemplates
           /\ templates = Restrict(base, TemplateNames \ missing)
    /\ doc = Parse(page)
    /\ domReady = FALSE
    /\ timers = 0
    /\ passes = <<>>
    /\ loads = {}
    /\ fetches = <<>>
    /\ calls = 0
    /\ prevDoc = <<>>
    /\ replaced = 0
    /\ LayIdle
    /\ BlogIdle
    /\ ShIdle

Next ==
    \/ DOMContentLoaded
    \/ TimerFires
    \/ \E c \in loads : FetchOk(c)
    \/ \E c \in loads : FetchFails(c)
    \/ \E c \in loads : TextResolves(c)
    \/ \E c \in loads : TextFails(c)
    \/ CallAgain

Spec == Init /\ [][Next]_vars

\* The browser runs every due timer and every fetch settles.
Fairness ==
    /\ WF_vars(DOMContentLoaded)
    /\ WF_vars(TimerFires)
    /\ WF_vars(\E c \in loads : FetchOk(c) \/ FetchFails(c))
    /\ WF_vars(\E c \in loads : TextResolves(c) \/ TextFails(c))

SpecFair == Spec /\ Fairness

-----------------------------------------------------------------------------
(* Insertion points, as the specification defines them: an element named   *)
(* t_<name> by its tag, by one of its class tokens or by its id.           *)

\* the whitespace-separated tokens of a class attribute
ClassTokens(s) ==
    {SubSeq(s, i, j) : <<i, j>> \in
        {ij \in (1..Len(s)) \X (1..Len(s)) :
            /\ ij[1] <= ij[2]
            /\ \A x \in ij[1]..ij[2] : s[x] # " "
            /\ (ij[1] = 1 \/ s[ij[1] - 1] = " ")
            /\ (ij[2] = Len(s) \/ s[ij[2] + 1] = " ")}}

IsInsertionPoint(n, name) ==
    /\ n.k = "el"
    /\ \/ n.tag = t_ \o name
       \/ (t_ \o name) \in ClassTokens(n.cls)
       \/ n.id = t_ \o name

InsertionPointNames(d) ==
    UNION {{Substring(n.tag, 2) : x \in {y \in {n} : StartsWith(n.tag, t_)}}
           \cup {Substring(tok, 2) : tok \in {y \in ClassTokens(n.cls) : StartsWith(y, t_)}}
           \cup {Substring(n.id, 2) : x \in {y \in {n} : StartsWith(n.id, t_)}}
           : n \in Range(Elements(d))}

InsertionPointsOf(d, name) ==
    SelectSeq(Elements(d), LAMBDA n : IsInsertionPoint(n, name))

\* this step is a loadAllTemplates call
ScanStep == Len(passes') = Len(passes) + 1

\* this step ends loadTemplate call c in state st
Ends(c, st) == Pending(c) /\ c \notin loads' /\ [c EXCEPT !.st = st] \in loads'

-----------------------------------------------------------------------------
(* C1: the name set of a scan pass is exactly the set of distinct          *)
(* t_-prefixed insertion-point names on the page, whichever of the three   *)
(* conventions declared them.                                              *)
C1_ScanYieldsExactlyTheNames ==
    [][ScanStep => passes'[Len(passes')] = InsertionPointNames(doc)]_vars

(* C2: when the fetch for a name fails, then at the end of loadTemplate    *)
(* every insertion point of that name holds the error placeholder naming   *)
(* the template.                                                           *)
C2_FailureMarksEveryInsertionPoint ==
    [][\A c \in loads :
          (c.st = "fetch" /\ Ends(c, "failed"))
          => \A n \in Range(InsertionPointsOf(doc', c.name)) :
                 n.kids = Parse(ErrorPlaceholder(c.name))]_vars

(* C3: when the fetch for a non-layout name succeeds, every insertion      *)
(* point of that name receives the fetched content, whichever convention   *)
(* declared it.                                                            *)
C3_SuccessFillsEveryInsertionPoint ==
    [][\A c \in loads :
          (c.name # s_layout /\ Ends(c, "done"))
          => \A n \in Range(InsertionPointsOf(doc', c.name)) :
                 n.kids \in {Parse(templates[c.name]),
                             Parse(AdjustedContent(templates[c.name]))}]_vars

(* C5: on a page with no layout insertion point and stable template        *)
(* resources, running loadAllTemplates a second time leaves the page as    *)
(* the first run left it.                                                  *)
NoLayoutOnPage == s_layout \notin InsertionPointNames(Parse(page))

RanAgain == calls > 0 /\ Quiescent

TemplatesAreLeaves ==
    \A n \in DOMAIN templates \ {s_layout} :
        InsertionPointNames(Parse(templates[n])) = {}

LayoutPointNames ==
    IF s_layout \in DOMAIN templates
    THEN {Substring(e.tag, 2) :
          e \in {x \in Range(Elements(Parse(templates[s_layout]))) : StartsWith(x.tag, t_)}}
    ELSE {}

\* A node list with the content of every t_ custom element left out: what an
\* insertion point holds apart from what its own insertion points were given.
RECURSIVE Hollow(_)
Hollow(nodes) ==
    IF nodes = <<>> THEN <<>>
    ELSE LET n == Head(nodes)
         IN  <<IF n.k = "el" /\ StartsWith(n.tag, t_) THEN [n EXCEPT !.kids = <<>>]
               ELSE [n EXCEPT !.kids = Hollow(n.kids)]>>
             \o Hollow(Tail(nodes))

Populated(e, name) ==
    \/ e.kids = Parse(ErrorPlaceholder(name))
    \/ /\ name \in DOMAIN templates
       /\ Hollow(e.kids) = Hollow(Parse(AdjustedContent(templates[name])))

Rescanned ==
    /\ timers = 0
    /\ Len(passes) >= 2
    /\ \A n \in LayoutPointNames :
           \A e \in Range(QuerySelectorAll(doc, n)) : Populated(e, n)

C6_RescanAfterLayoutRender == (replaced > 0) ~> Rescanned

C6_Witness ==
    /\ replaced > 0
    /\ Rescanned
    /\ s_header \in DOMAIN templates
    /\ QuerySelectorAll(doc, s_header) # <<>>
    /\ \A e \in Range(QuerySelectorAll(doc, s_header)) :
           e.kids = Parse(AdjustedContent(templates[s_header]))

(* C7: within one pass every name is fetched, a load that fails leaves the *)
(* other loads of its pass as they are, each of them can still settle, and *)
(* a load that succeeds beside a failed one still writes its content into  *)
(* the elements it selects.                                                *)
Siblings(c) == {d \in loads : d # c /\ d.pass = c.pass}

CanSettle(c) ==
    ENABLED (FetchOk(c) \/ FetchFails(c) \/ TextResolves(c) \/ TextFails(c))

C7_FailureLeavesSiblingsAlone ==
    /\ [][/\ ScanStep =>
               \A n \in passes'[Len(passes')] :
                   [pass |-> Len(passes'), name |-> n, st |-> "fetch"] \in loads'
          /\ \A c \in loads :
               (Ends(c, "failed") \/ Ends(c, "threw"))
               => \A d \in Siblings(c) : d \in loads'
          /\ \A c \in loads :
               (/\ c.name # s_layout
                /\ Ends(c, "done")
                /\ \E d \in Siblings(c) : d.st \in {"failed", "threw"})
               => \A e \in Range(QuerySelectorAll(doc', c.name)) :
                      e.kids = Parse(AdjustedContent(templates[c.name]))]_vars
    /\ [](\A c \in loads : Pending(c) => CanSettle(c))

\* a load has failed and another load of the same pass has injected its content
C7_Witness ==
    \E c \in loads : \E d \in Siblings(c) :
        /\ c.st = "failed"
        /\ d.st = "done"
        /\ d.name # s_layout
        /\ QuerySelectorAll(doc, d.name) # <<>>
        /\ \A e \in Range(QuerySelectorAll(doc, d.name)) :
               e.kids = Parse(AdjustedContent(templates[d.name]))

-----------------------------------------------------------------------------
(* renderLayoutTemplate on its own: one call, on a layout text and an       *)
(* insertion point drawn from the sets below                                *)

s_p == <<"p">>
s_title == <<"t","i","t","l","e">>

\* the scripts placeholder ahead of the content placeholder
LayoutScriptsFirst ==
    TagWith(s_title, <<Txt("{{title}}")>>) \o <<Txt("{{head}}"), Txt("{{scripts}}")>>
    \o TagWith(s_main, <<Txt("{{content}}")>>)

\* no head placeholder
LayoutNoHead ==
    TagWith(s_title, <<Txt("{{title}}")>>)
    \o TagWith(s_main, <<Txt("{{content}}")>>) \o <<Txt("{{scripts}}")>>

\* the title placeholder twice
LayoutTitleTwice ==
    TagWith(s_title, <<Txt("{{title}}")>>) \o <<Txt("{{head}}")>>
    \o TagWith(<<"h","1">>, <<Txt("{{title}}")>>)
    \o TagWith(s_main, <<Txt("{{content}}")>>) \o <<Txt("{{scripts}}")>>

LayTemplates == {LayoutHtml, LayoutScriptsFirst, LayoutNoHead, LayoutTitleTwice}

\* data-title: absent, empty, plain, and two that hold text replace() reads
LayTitles == {NoAttr, Attr(<<>>), Attr(<<Txt("X")>>), Attr(<<Txt("{{content}}")>>),
              Attr(<<Txt("$&")>>)}

LayHeads == {NoAttr, Attr(<<Txt("M")>>)}

LayScripts == {NoAttr, Attr(<<Txt("S")>>)}

\* what the page wrote inside <t_layout>
LayContents == {TagWith(s_p, <<Txt("Y")>>), TagWith(s_p, <<Txt("{{scripts}}")>>),
                <<Txt("$$")>>, <<>>}

LayElements ==
    {Element(Open(t_ \o s_layout, <<>>, <<>>, [title |-> t, head |-> h, scripts |-> sc]),
             Parse(c)) :
     t \in LayTitles, h \in LayHeads, sc \in LayScripts, c \in LayContents}

\* renderLayoutTemplate(element, templateContent)
RenderLayoutTemplate ==
    /\ layPc = "call"
    /\ layRendered' = RenderedContent(layElement, layTemplate)
    /\ layDoc' = Parse(RenderedContent(layElement, layTemplate))
    /\ layTimers' = layTimers + 1
    /\ layPc' = "done"
    /\ UNCHANGED <<layTemplate, layElement>>
    /\ UNCHANGED <<tplVars, blogVars, shVars>>

InitLayout ==
    /\ TplIdle
    /\ BlogIdle
    /\ ShIdle
    /\ layTemplate \in LayTemplates
    /\ layElement \in LayElements
    /\ layRendered = <<>>
    /\ layDoc = <<layElement>>
    /\ layTimers = 0
    /\ layPc = "call"

NextLayout == RenderLayoutTemplate

SpecLayout == InitLayout /\ [][NextLayout]_vars

\* The index of the first piece of text that is the placeholder; 0 when
\* there is none.
FirstIndex(text, pattern) ==
    LET hits == {i \in 1..Len(text) : text[i] = Txt(pattern)}
    IN  IF hits = {} THEN 0 ELSE CHOOSE x \in hits : \A y \in hits : x <= y

HasAllFour(text) ==
    \A ph \in {"{{title}}", "{{head}}", "{{content}}", "{{scripts}}"} :
        FirstIndex(text, ph) # 0

\* text from index i on, with the piece at each index of DOMAIN at replaced
\* by at[index]
RECURSIVE SubstituteFrom(_, _, _)
SubstituteFrom(text, i, at) ==
    IF i > Len(text) THEN <<>>
    ELSE (IF i \in DOMAIN at THEN at[i] ELSE <<text[i]>>)
         \o SubstituteFrom(text, i + 1, at)

\* The layout text with the four placeholders replaced, each by its value
\* as given.
Substituted(text, title, head, content, scripts) ==
    LET pt == FirstIndex(text, "{{title}}")
        ph == FirstIndex(text, "{{head}}")
        pc == FirstIndex(text, "{{content}}")
        ps == FirstIndex(text, "{{scripts}}")
    IN  SubstituteFrom(text, 1,
            [i \in {pt, ph, pc, ps} |->
                IF i = pt THEN title ELSE IF i = ph THEN head
                ELSE IF i = pc THEN content ELSE scripts])

\* C4: for a layout text that holds each of the four placeholders, an
\* insertion point that gives a data-title and omits data-head and
\* data-scripts is rendered as the layout text with {{title}} replaced by the
\* data-title value, {{content}} by the inner content of the insertion
\* point, and {{head}} and {{scripts}} by the empty string.
C4_LayoutRenderSubstitutes ==
    (/\ layPc = "done"
     /\ HasAllFour(layTemplate)
     /\ layElement.data.title.has
     /\ layElement.data.title.v # <<>>
     /\ ~layElement.data.head.has
     /\ ~layElement.data.scripts.has)
    => layRendered = Substituted(layTemplate, layElement.data.title.v, <<>>,
                                 Serialize(layElement.kids), <<>>)

-----------------------------------------------------------------------------
(* The blog router (the script that deploy.sh carries after its shell part) *)

\* '/blog/'
blogPath == <<"/", "b", "l", "o", "g", "/">>

s_article == <<"a", "r", "t", "i", "c", "l", "e">>

dot_md == <<".", "m", "d">>

\* currentPath.startsWith(blogPath), were it a search for blogPath anywhere
\* in the path.
IsBlogPathAnywhere(currentPath) == Contains(currentPath, blogPath)

\* currentPath.startsWith(blogPath)
IsBlogPath(currentPath) == StartsWith(currentPath, blogPath)

\* The index of the first c in s; 0 when there is none.
IndexOf(s, c) ==
    LET hits == {i \in 1..Len(s) : s[i] = c}
    IN  IF hits = {} THEN 0 ELSE CHOOSE x \in hits : \A y \in hits : x <= y

\* s.split(c)
RECURSIVE Split(_, _)
Split(s, c) ==
    CHOOSE r \in {IF i = 0 THEN <<s>>
                  ELSE <<SubSeq(s, 1, i - 1)>> \o Split(SubSeq(s, i + 1, Len(s)), c) :
                  i \in {IndexOf(s, c)}} : TRUE

\* new URLSearchParams(window.location.search): the leading "?" is dropped,
\* the pairs are split at "&", an empty piece gives no pair, and a pair is
\* split at its first "=".
URLSearchParams(search) ==
    LET query == IF search # <<>> /\ Head(search) = "?" THEN Tail(search) ELSE search
        pieces == SelectSeq(Split(query, "&"), LAMBDA p : p # <<>>)
    IN  [j \in 1..Len(pieces) |->
            LET i == IndexOf(pieces[j], "=")
            IN  IF i = 0 THEN [name |-> pieces[j], value |-> <<>>]
                ELSE [name  |-> SubSeq(pieces[j], 1, i - 1),
                      value |-> SubSeq(pieces[j], i + 1, Len(pieces[j]))]]

\* urlParams.get(name): the value of the first pair of that name, or null
Get(urlParams, name) ==
    LET hits == {j \in 1..Len(urlParams) : urlParams[j].name = name}
    IN  IF hits = {} THEN NoAttr
        ELSE Attr(urlParams[CHOOSE x \in hits : \A y \in hits : x <= y].value)

\* if (article): null and "" are both falsy
Truthy(value) == value.has /\ value.v # <<>>

\* markdownPath: `../test/${filename}` on a page in a subdirectory,
\* `test/${filename}` otherwise
MarkdownPath(filename) ==
    [up |-> IsInSubdirectory(location.pathname), file |-> filename]

\* The browser resolves the relative path against the page's directory; the
\* articles are served from /test/ only.
BlogServed(path) ==
    /\ path.file \in {f \o dot_md : f \in testFiles}
    /\ DirDepth(location.pathname) - (IF path.up THEN 1 ELSE 0) = 0

(* File names and instants *)

\* /^(\d{4}-\d{2}-\d{2}T\d{2}:\d{2}:\d{2}\.\d{3}Z)/ with "d" standing for \d
IsoPattern == <<"d", "d", "d", "d", "-", "d", "d", "-", "d", "d", "T", "d", "d", ":", "d", "d", ":", "d", "d", ".", "d", "d", "d", "Z">>

MatchesIsoPrefix(filename) ==
    /\ Len(filename) >= Len(IsoPattern)
    /\ \A i \in 1..Len(IsoPattern) :
           IF IsoPattern[i] = "d" THEN IsDigit(filename[i])
           ELSE filename[i] = IsoPattern[i]

\* parseIsoDateTimeFromFilename: match[1] or null
ParseIsoDateTimeFromFilename(filename) ==
    IF MatchesIsoPrefix(filename) THEN Attr(SubSeq(filename, 1, Len(IsoPattern)))
    ELSE NoAttr

\* extractArticleNameFromFilename: what follows "<instant>-", or the file
\* name itself
ExtractArticleNameFromFilename(filename) ==
    IF /\ MatchesIsoPrefix(filename)
       /\ Len(filename) >= Len(IsoPattern) + 2
       /\ filename[Len(IsoPattern) + 1] = "-"
    THEN SubSeq(filename, Len(IsoPattern) + 2, Len(filename))
    ELSE filename

DigitValue(c) == (CHOOSE i \in 1..Len(Digits) : Digits[i] = c) - 1

\* the number a string of digits writes
RECURSIVE Number(_)
Number(s) ==
    IF s = <<>> THEN 0
    ELSE Number(SubSeq(s, 1, Len(s) - 1)) * 10 + DigitValue(s[Len(s)])

\* An instant is <<year, month, day, hour, minute, second, millisecond>> in
\* UTC, the month counted from 1.  new Date(isoDateTime) reads the fields.
NewDate(isoDateTime) ==
    <<Number(SubSeq(isoDateTime, 1, 4)), Number(SubSeq(isoDateTime, 6, 7)),
      Number(SubSeq(isoDateTime, 9, 10)), Number(SubSeq(isoDateTime, 12, 13)),
      Number(SubSeq(isoDateTime, 15, 16)), Number(SubSeq(isoDateTime, 18, 19)),
      Number(SubSeq(isoDateTime, 21, 23))>>

IsLeapYear(y) == (y % 4 = 0 /\ y % 100 # 0) \/ y % 400 = 0

DaysInMonth(y, m) ==
    IF m = 2 THEN (IF IsLeapYear(y) THEN 29 ELSE 28)
    ELSE IF m \in {4, 6, 9, 11} THEN 30 ELSE 31

\* The Date is not an Invalid Date (whose toISOString() throws).
IsValidDate(t) ==
    /\ t[2] \in 1..12
    /\ t[3] \in 1..DaysInMonth(t[1], t[2])
    /\ t[4] <= 23 /\ t[5] <= 59 /\ t[6] <= 59

\* a < b on instants
Before(a, b) ==
    \E i \in 1..Len(a) : a[i] < b[i] /\ \A j \in 1..(i - 1) : a[j] = b[j]

\* the months getAvailableArticles goes back, and the articles it returns
MonthsBack == 3
ArticleLimit == 4

\* date.setMonth(date.getMonth() - n): the month moves back n, into the year
\* before if need be; a day the new month does not have runs over into the
\* month after.
SetMonthBack(t, n) ==
    LET y == IF t[2] - n < 1 THEN t[1] - 1 ELSE t[1]
        m == IF t[2] - n < 1 THEN t[2] - n + 12 ELSE t[2] - n
    IN  IF t[3] > DaysInMonth(y, m)
        THEN <<y, m + 1, t[3] - DaysInMonth(y, m), t[4], t[5], t[6], t[7]>>
        ELSE <<y, m, t[3], t[4], t[5], t[6], t[7]>>

UpperChar(c) ==
    IF c \in Range(Lower) THEN Upper[CHOOSE i \in 1..Len(Lower) : Lower[i] = c] ELSE c

\* articleName.replace(/-/g, ' ').replace(/\b\w/g, l => l.toUpperCase())
DisplayName(articleName) ==
    LET spaced == [i \in 1..Len(articleName) |->
                      IF articleName[i] = "-" THEN " " ELSE articleName[i]]
    IN  [i \in 1..Len(spaced) |->
            IF IsWordChar(spaced[i]) /\ (i = 1 \/ ~IsWordChar(spaced[i - 1]))
            THEN UpperChar(spaced[i]) ELSE spaced[i]]

\* the object pushed onto availableArticles
Descriptor(article, isoDateTime) ==
    [name        |-> article,
     displayName |-> DisplayName(ExtractArticleNameFromFilename(article)),
     published   |-> Split(isoDateTime, "T")[1],
     isoDateTime |-> isoDateTime,
     url         |-> <<"/", "b", "l", "o", "g", "/", "?", "a", "r", "t", "i", "c", "l", "e", "=">> \o article]

\* availableArticles, were it returned in the order of the registry
KeepOrder(list) == list

\* one element put into a list that is sorted newest first, behind the
\* elements that are as new (the sort is stable)
InsertByDate(sorted, x) ==
    LET p == Cardinality({j \in 1..Len(sorted) :
                 ~Before(NewDate(sorted[j].isoDateTime), NewDate(x.isoDateTime))})
    IN  SubSeq(sorted, 1, p) \o <<x>> \o SubSeq(sorted, p + 1, Len(sorted))

\* availableArticles.sort((a, b) => new Date(b.isoDateTime) - new Date(a.isoDateTime))
RECURSIVE SortNewestFirst(_)
SortNewestFirst(list) ==
    IF list = <<>> THEN <<>>
    ELSE CHOOSE r \in {InsertByDate(s, list[Len(list)]) :
                       s \in {SortNewestFirst(SubSeq(list, 1, Len(list) - 1))}} : TRUE

\* list.slice(0, n)
Slice(list, n) == SubSeq(list, 1, IF Len(list) < n THEN Len(list) ELSE n)

(* The blog page *)

\* markdownToHtml: marked.parse(markdown) when the page has loaded marked.js,
\* `<pre>${markdown}</pre>` when it has not
MarkdownToHtml(markedLoaded, markdown) ==
    [by |-> IF markedLoaded THEN "marked.parse" ELSE "pre", of |-> markdown]

NoBody == [by |-> "none", of |-> <<>>]

\* What a region holds: as served ("default"), the post of a file or the
\* "Post Not Found" panel of a file; whether it holds the "Back to Blog"
\* link; and the article body.
Region(kind, file, back, body) == [kind |-> kind, file |-> file, back |-> back, body |-> body]

NoRegion == Region("default", <<>>, FALSE, NoBody)

\* the text the server holds for a file of /test/
MarkdownContent(filename) == [textOf |-> filename]

\* the regions of the page the router reads and writes
PageShape(container, grid, heading) ==
    [container |-> container,    \* document.querySelector('main .container')
     grid      |-> grid,         \* its .feature-grid
     heading   |-> heading,      \* its .features h2
     titleEl   |-> TRUE,         \* document.querySelector('title')
     marked    |-> TRUE,         \* typeof marked !== 'undefined'
     main      |-> NoRegion,     \* what the container holds
     cards     |-> <<>>,         \* the feature cards of the grid
     count     |-> -1,           \* the count the heading shows (-1: as served)
     title     |-> NoRegion]     \* what the title holds

\* loadMarkdownFile, try block: the post replaces what the container holds
\* (grid and heading with it), and the title is set
ShowPost(pg, filename) ==
    LET htmlContent == MarkdownToHtml(pg.marked, MarkdownContent(filename))
        shown == IF pg.container
                 THEN [pg EXCEPT !.main = Region("post", filename, TRUE, htmlContent),
                                 !.grid = FALSE, !.heading = FALSE, !.cards = <<>>]
                 ELSE pg
    IN  IF pg.titleEl
        THEN [shown EXCEPT !.title = Region("post", filename, FALSE, NoBody)]
        ELSE shown

\* ShowNotFound, were the catch block to log the error and write nothing.
LogOnly(pg, filename) == pg

\* loadMarkdownFile, catch block: the "Post Not Found" panel
ShowNotFound(pg, filename) ==
    IF pg.container
    THEN [pg EXCEPT !.main = Region("notfound", filename, TRUE, NoBody),
                    !.grid = FALSE, !.heading = FALSE, !.cards = <<>>]
    ELSE pg

\* UpdateBlogPageWithArticles, were the section title looked up and set
\* ahead of the feature grid.
UpdateHeadingFirst(pg, articles) ==
    IF ~pg.container THEN pg
    ELSE LET titled == [pg EXCEPT !.count = IF pg.heading THEN Len(articles) ELSE @]
         IN  IF ~pg.grid THEN titled
             ELSE [titled EXCEPT
                     !.cards = [j \in 1..Len(articles) |->
                                   [url         |-> articles[j].url,
                                    displayName |-> articles[j].displayName,
                                    published   |-> articles[j].published]]]

\* updateBlogPageWithArticles
UpdateBlogPageWithArticles(pg, articles) ==
    IF ~pg.container THEN pg
    ELSE IF ~pg.grid THEN pg
    ELSE [pg EXCEPT
            !.cards = [j \in 1..Len(articles) |->
                          [url         |-> articles[j].url,
                           displayName |-> articles[j].displayName,
                           published   |-> articles[j].published]],
            !.count = IF pg.heading THEN Len(articles) ELSE @]

(* The inputs the model is run on *)

\* knownArticles
KnownArticles ==
    <<<<"2", "0", "2", "4", "-", "0", "1", "-", "1", "5", "T", "1", "0", ":", "3", "0", ":", "4", "5", ".", "1", "2", "3", "Z", "-", "s", "a", "m", "p", "l", "e", "1">>,
      <<"2", "0", "2", "4", "-", "0", "1", "-", "1", "0", "T", "1", "4", ":", "2", "2", ":", "1", "8", ".", "4", "5", "6", "Z", "-", "s", "a", "m", "p", "l", "e", "2">>,
      <<"2", "0", "2", "4", "-", "0", "1", "-", "0", "5", "T", "0", "8", ":", "1", "5", ":", "3", "0", ".", "7", "8", "9", "Z", "-", "s", "a", "m", "p", "l", "e", "3">>,
      <<"2", "0", "2", "4", "-", "0", "1", "-", "2", "0", "T", "1", "6", ":", "4", "5", ":", "3", "0", ".", "9", "9", "9", "Z", "-", "n", "e", "w", "-", "a", "r", "t", "i", "c", "l", "e">>,
      <<"2", "0", "2", "4", "-", "0", "1", "-", "2", "5", "T", "1", "2", ":", "0", "0", ":", "0", "0", ".", "0", "0", "0", "Z", "-", "d", "i", "r", "e", "c", "t", "o", "r", "y", "-", "t", "e", "s", "t">>,
      <<"2", "0", "2", "4", "-", "0", "6", "-", "0", "1", "T", "1", "2", ":", "0", "0", ":", "0", "0", ".", "0", "0", "0", "Z", "-", "o", "l", "d", "-", "a", "r", "t", "i", "c", "l", "e">>,
      <<"2", "0", "2", "5", "-", "1", "0", "-", "0", "7", "T", "0", "8", ":", "0", "0", ":", "0", "0", ".", "0", "0", "0", "Z", "-", "f", "o", "u", "r", "-", "d", "a", "y", "s", "-", "a", "g", "o">>,
      <<"2", "0", "2", "5", "-", "1", "0", "-", "0", "8", "T", "1", "0", ":", "0", "0", ":", "0", "0", ".", "0", "0", "0", "Z", "-", "t", "h", "r", "e", "e", "-", "d", "a", "y", "s", "-", "a", "g", "o">>,
      <<"2", "0", "2", "5", "-", "1", "0", "-", "0", "9", "T", "1", "2", ":", "0", "0", ":", "0", "0", ".", "0", "0", "0", "Z", "-", "t", "w", "o", "-", "d", "a", "y", "s", "-", "a", "g", "o">>,
      <<"2", "0", "2", "5", "-", "1", "0", "-", "1", "0", "T", "1", "4", ":", "0", "0", ":", "0", "0", ".", "0", "0", "0", "Z", "-", "y", "e", "s", "t", "e", "r", "d", "a", "y", "s", "-", "a", "r", "t", "i", "c", "l", "e">>,
      <<"2", "0", "2", "5", "-", "1", "0", "-", "1", "1", "T", "1", "5", ":", "0", "0", ":", "0", "0", ".", "0", "0", "0", "Z", "-", "t", "o", "d", "a", "y", "s", "-", "a", "r", "t", "i", "c", "l", "e">>>>

TodaysArticle == KnownArticles[Len(KnownArticles)]

\* a registry as a later edit of the list could leave it: an article of the
\* first days of March, one of late May, a name with no instant, an instant
\* with month 13, and an article of 29 February
RegistryEdge ==
    <<<<"2", "0", "2", "5", "-", "0", "3", "-", "0", "1", "T", "1", "2", ":", "0", "0", ":", "0", "0", ".", "0", "0", "0", "Z", "-", "a">>,
      <<"2", "0", "2", "5", "-", "0", "5", "-", "3", "0", "T", "0", "9", ":", "0", "0", ":", "0", "0", ".", "0", "0", "0", "Z", "-", "b">>,
      <<"n", "o", "t", "e", "s">>,
      <<"2", "0", "2", "5", "-", "1", "3", "-", "0", "1", "T", "0", "0", ":", "0", "0", ":", "0", "0", ".", "0", "0", "0", "Z", "-", "c">>,
      <<"2", "0", "2", "4", "-", "0", "2", "-", "2", "9", "T", "1", "2", ":", "0", "0", ":", "0", "0", ".", "0", "0", "0", "Z", "-", "l", "e", "a", "p">>>>

\* another: instants just before and exactly at a cut-off, two equal
\* instants, and an instant in the future
RegistryTies ==
    <<<<"2", "0", "2", "4", "-", "1", "0", "-", "1", "4", "T", "2", "3", ":", "5", "9", ":", "5", "9", ".", "9", "9", "9", "Z", "-", "b", "e", "f", "o", "r", "e">>,
      <<"2", "0", "2", "4", "-", "1", "0", "-", "1", "5", "T", "0", "0", ":", "0", "0", ":", "0", "0", ".", "0", "0", "0", "Z", "-", "e", "d", "g", "e">>,
      <<"2", "0", "2", "5", "-", "0", "1", "-", "1", "0", "T", "1", "0", ":", "0", "0", ":", "0", "0", ".", "0", "0", "0", "Z", "-", "x">>,
      <<"2", "0", "2", "5", "-", "0", "1", "-", "1", "0", "T", "1", "0", ":", "0", "0", ":", "0", "0", ".", "0", "0", "0", "Z", "-", "y">>,
      <<"2", "0", "2", "6", "-", "0", "1", "-", "0", "1", "T", "0", "0", ":", "0", "0", ":", "0", "0", ".", "0", "0", "0", "Z", "-", "f", "u", "t", "u", "r", "e">>,
      <<"2", "0", "2", "5", "-", "0", "1", "-", "1", "2", "T", "0", "0", ":", "0", "0", ":", "0", "0", ".", "0", "0", "0", "Z", "-", "z">>>>

\* another: a name with no instant ahead of the rest, an instant with month
\* 13, an instant written without its milliseconds, and two articles of
\* October 2025
RegistryUndated ==
    <<<<"m", "y", "-", "a", "r", "t", "i", "c", "l", "e">>,
      <<"2", "0", "2", "5", "-", "1", "3", "-", "0", "1", "T", "0", "0", ":", "0", "0", ":", "0", "0", ".", "0", "0", "0", "Z", "-", "c">>,
      <<"2", "0", "2", "5", "-", "1", "0", "-", "0", "9", "T", "1", "2", ":", "0", "0", ":", "0", "0", "Z", "-", "n", "o", "-", "m", "i", "l", "l", "i", "s">>,
      <<"2", "0", "2", "5", "-", "1", "0", "-", "1", "0", "T", "1", "4", ":", "0", "0", ":", "0", "0", ".", "0", "0", "0", "Z", "-", "y", "e", "s", "t", "e", "r", "d", "a", "y", "s", "-", "a", "r", "t", "i", "c", "l", "e">>,
      <<"2", "0", "2", "5", "-", "1", "0", "-", "1", "1", "T", "1", "5", ":", "0", "0", ":", "0", "0", ".", "0", "0", "0", "Z", "-", "t", "o", "d", "a", "y", "s", "-", "a", "r", "t", "i", "c", "l", "e">>>>

\* scan times: 2025-10-11T16:00:00.000Z, 2025-05-31T12:00:00.000Z,
\* 2025-01-15T00:00:00.000Z and 2024-05-30T08:00:00.000Z
NowOct == <<2025, 10, 11, 16, 0, 0, 0>>
NowMay == <<2025, 5, 31, 12, 0, 0, 0>>
NowJan == <<2025, 1, 15, 0, 0, 0, 0>>
NowLeap == <<2024, 5, 30, 8, 0, 0, 0>>

BlogPathnames ==
    {<<"/">>, <<"/", "b", "l", "o", "g", "/">>, <<"/", "b", "l", "o", "g", "/", "i", "n", "d", "e", "x", ".", "h", "t", "m", "l">>, <<"/", "b", "l", "o", "g">>, <<"/", "x", "/", "b", "l", "o", "g", "/">>}

BlogSearches ==
    {<<>>,
     <<"?", "a", "r", "t", "i", "c", "l", "e", "=">> \o TodaysArticle,
     <<"?", "a", "r", "t", "i", "c", "l", "e", "=", "m", "i", "s", "s", "i", "n", "g">>,
     <<"?", "a", "r", "t", "i", "c", "l", "e", "=">>,
     <<"?", "x", "=", "1">>,
     <<"?", "x", "=", "1", "&", "a", "r", "t", "i", "c", "l", "e", "=", "m", "i", "s", "s", "i", "n", "g", "&", "a", "r", "t", "i", "c", "l", "e", "=", "o", "t", "h", "e", "r">>,
     <<"?", "A", "r", "t", "i", "c", "l", "e", "=", "m", "i", "s", "s", "i", "n", "g">>,
     <<"?", "a", "r", "t", "i", "c", "l", "e", "=", "&", "a", "r", "t", "i", "c", "l", "e", "=", "o", "t", "h", "e", "r">>}

\* document.readyState when the script is evaluated, and whether
\* DOMContentLoaded has been dispatched by then
ReadyStates ==
    {[readyState |-> "loading", dispatched |-> FALSE],
     [readyState |-> "interactive", dispatched |-> FALSE],
     [readyState |-> "interactive", dispatched |-> TRUE],
     [readyState |-> "complete", dispatched |-> TRUE]}

FullPage == PageShape(TRUE, TRUE, TRUE)

\* the page without marked.js
PageNoMarked == [FullPage EXCEPT !.marked = FALSE]

PageShapes == {FullPage, PageShape(TRUE, FALSE, TRUE), PageShape(FALSE, FALSE, FALSE),
               PageNoMarked}

Input(pathname_, search_, registry, clock, files, flaky_, ready, pg) ==
    [location |-> [pathname |-> pathname_, search |-> search_],
     knownArticles |-> registry, now |-> clock, testFiles |-> files,
     flakyNet |-> flaky_, ready |-> ready, page |-> pg]

Loading == [readyState |-> "loading", dispatched |-> FALSE]

\* every path with every query string
RoutingInputs ==
    {Input(p, s, RegistryEdge, NowOct, Range(RegistryEdge) \cup Range(KnownArticles),
           FALSE, Loading, FullPage) :
     p \in BlogPathnames, s \in BlogSearches}

\* the network failing
FlakyInputs ==
    {Input(blogPath, s, RegistryEdge, NowMay, Range(RegistryEdge), TRUE, Loading, FullPage) :
     s \in {<<>>, <<"?", "a", "r", "t", "i", "c", "l", "e", "=", "n", "o", "t", "e", "s">>}}

\* the script evaluated at every stage of loading, and every page shape
LoadingInputs ==
    {Input(blogPath, s, RegistryEdge, NowMay, Range(RegistryEdge), FALSE, in.ready, in.pg) :
     s \in {<<>>, <<"?", "a", "r", "t", "i", "c", "l", "e", "=", "n", "o", "t", "e", "s">>},
     in \in {[ready |-> ready, pg |-> FullPage] : ready \in ReadyStates}
            \cup {[ready |-> Loading, pg |-> pg] : pg \in PageShapes}}

\* the index as deployed, all files present or the first one absent
DeployedInputs ==
    {Input(blogPath, <<>>, KnownArticles, clock,
           Range(KnownArticles) \ (IF firstAbsent THEN {KnownArticles[1]} ELSE {}), FALSE,
           Loading, FullPage) :
     clock \in {NowOct, NowMay}, firstAbsent \in BOOLEAN}

\* the index at every scan time, with other registries
ScanInputs ==
    {Input(blogPath, <<>>, registry, clock,
           Range(registry) \ (IF firstAbsent THEN {registry[1]} ELSE {}), FALSE, Loading,
           FullPage) :
     registry \in {RegistryEdge, RegistryTies},
     clock \in {NowOct, NowMay, NowJan, NowLeap},
     firstAbsent \in BOOLEAN}

\* the index over a registry that holds names with no instant
UndatedInputs ==
    {Input(blogPath, <<>>, RegistryUndated, NowOct,
           Range(RegistryUndated) \ (IF lastAbsent THEN {TodaysArticle} ELSE {}), flaky_,
           Loading, FullPage) :
     lastAbsent \in BOOLEAN, flaky_ \in BOOLEAN}

\* the index over the three newest entries of the registry, the first of
\* them absent, with the network failing
FailingInputs ==
    {Input(blogPath, <<>>, SubSeq(KnownArticles, Len(KnownArticles) - 2, Len(KnownArticles)),
           NowOct, Range(KnownArticles) \ {KnownArticles[Len(KnownArticles) - 2]}, TRUE,
           Loading, FullPage)}

BlogInputs ==
    RoutingInputs \cup FlakyInputs \cup LoadingInputs \cup DeployedInputs \cup ScanInputs
    \cup UndatedInputs \cup FailingInputs

\* popstate events in all
MaxPopstates == 1

(* The router's steps *)

NewRun(id, by, view, article, st, i, cutoff) ==
    [id |-> id, by |-> by, view |-> view, article |-> article, st |-> st, i |-> i,
     threeMonthsAgo |-> cutoff, availableArticles |-> <<>>, result |-> <<>>]

\* InitBlogRouter, were getAvailableArticles to start every presence check
\* before awaiting any.
InitBlogRouterAllAtOnce(by) ==
    LET id == Cardinality(runs) + 1
        currentPath == location.pathname
        article == Get(URLSearchParams(location.search), s_article)
    IN  /\ blogPage' = blogPage
        /\ IF IsBlogPath(currentPath)
           THEN IF Truthy(article)
                THEN /\ runs' = runs \cup
                         {NewRun(id, by, "ArticleView", article, "fetch", 0, <<>>)}
                     /\ requests' = requests \cup
                         {[run |-> id, method |-> "GET",
                           path |-> MarkdownPath(article.v \o dot_md)]}
                ELSE /\ runs' = runs \cup
                         {NewRun(id, by, "IndexView", article, "head", 1,
                                 SetMonthBack(now, MonthsBack))}
                     /\ requests' = requests \cup
                         {[run |-> id, method |-> "HEAD",
                           path |-> MarkdownPath(knownArticles[i] \o dot_md)] :
                          i \in 1..Len(knownArticles)}
           ELSE /\ runs' = runs \cup
                    {NewRun(id, by, "NotBlogPath", NoAttr, "done", 0, <<>>)}
                /\ requests' = requests

\* initBlogRouter, with what it calls up to the first await:
\* loadMarkdownFile up to its fetch, or showMainBlogPage and
\* getAvailableArticles up to the first presence check
InitBlogRouter(by) ==
    LET id == Cardinality(runs) + 1
        currentPath == location.pathname
        article == Get(URLSearchParams(location.search), s_article)
    IN  /\ blogPage' = blogPage
        /\ IF IsBlogPath(currentPath)
           THEN IF Truthy(article)
                THEN /\ runs' = runs \cup
                         {NewRun(id, by, "ArticleView", article, "fetch", 0, <<>>)}
                     /\ requests' = requests \cup
                         {[run |-> id, method |-> "GET",
                           path |-> MarkdownPath(article.v \o dot_md)]}
                ELSE /\ runs' = runs \cup
                         {NewRun(id, by, "IndexView", article, "head", 1,
                                 SetMonthBack(now, MonthsBack))}
                     /\ requests' = requests \cup
                         {[run |-> id, method |-> "HEAD",
                           path |-> MarkdownPath(knownArticles[1] \o dot_md)]}
           ELSE /\ runs' = runs \cup
                    {NewRun(id, by, "NotBlogPath", NoAttr, "done", 0, <<>>)}
                /\ requests' = requests

\* the DOMContentLoaded listener sets the 500 ms timer
BlogDOMContentLoaded ==
    /\ ~blogDomReady
    /\ blogDomReady' = TRUE
    /\ blogTimers' = blogTimers + 1
    /\ UNCHANGED <<location, knownArticles, now, testFiles, flakyNet, readyState,
                   runs, requests, checks, blogPage>>
    /\ UNCHANGED <<tplVars, layVars, shVars>>

\* a timer fires: the 500 ms one of the listener or the 1000 ms one of the
\* fallback
BlogTimerFires ==
    /\ blogTimers > 0
    /\ blogTimers' = blogTimers - 1
    /\ InitBlogRouter("timer")
    /\ UNCHANGED <<location, knownArticles, now, testFiles, flakyNet, readyState,
                   blogDomReady, checks>>
    /\ UNCHANGED <<tplVars, layVars, shVars>>

\* the popstate listener.  The site never calls pushState, so the history
\* entries of the document differ in their fragment only: path and query
\* string are what they were.
Popstate ==
    /\ Cardinality({r \in runs : r.by = "popstate"}) < MaxPopstates
    /\ InitBlogRouter("popstate")
    /\ UNCHANGED <<location, knownArticles, now, testFiles, flakyNet, readyState,
                   blogDomReady, blogTimers, checks>>
    /\ UNCHANGED <<tplVars, layVars, shVars>>

\* the presence check the run is waiting for
HeadPath(r) == MarkdownPath(knownArticles[r.i] \o dot_md)

\* how the presence check the run is waiting for has settled: response.ok,
\* a response that is not ok, or a rejected fetch
Outcome(r, outcome) == [run |-> r.id, i |-> r.i, outcome |-> outcome]

\* availableArticles after the body of `if (response.ok)` for the entry: an
\* entry is pushed when its name starts with an instant, the instant is a
\* date (else toISOString() throws into the catch of the loop) and the date
\* is not before the cut-off
Checked(r) ==
    LET article == knownArticles[r.i]
        isoDateTime == ParseIsoDateTimeFromFilename(article)
    IN  IF /\ isoDateTime.has
           /\ IsValidDate(NewDate(isoDateTime.v))
           /\ ~Before(NewDate(isoDateTime.v), r.threeMonthsAgo)
        THEN Append(r.availableArticles, Descriptor(article, isoDateTime.v))
        ELSE r.availableArticles

\* Continue, were the loop to end at an entry whose name starts with no
\* instant.
BreakAtUnparsable(r, available) ==
    IF r.i < Len(knownArticles) /\ ParseIsoDateTimeFromFilename(knownArticles[r.i]).has
    THEN /\ runs' = (runs \ {r}) \cup
                    {[r EXCEPT !.i = r.i + 1, !.availableArticles = available]}
         /\ requests' = requests \cup
                {[run |-> r.id, method |-> "HEAD",
                  path |-> MarkdownPath(knownArticles[r.i + 1] \o dot_md)]}
         /\ blogPage' = blogPage
    ELSE /\ runs' = (runs \ {r}) \cup
                    {[r EXCEPT !.st = "done", !.availableArticles = available,
                               !.result = Slice(SortNewestFirst(available), ArticleLimit)]}
         /\ requests' = requests
         /\ blogPage' = UpdateBlogPageWithArticles(blogPage,
                            Slice(SortNewestFirst(available), ArticleLimit))

\* the loop goes on to the next entry, or getAvailableArticles sorts, cuts
\* and returns and showMainBlogPage updates the page
Continue(r, available) ==
    \E availableArticles \in {available} :
        IF r.i < Len(knownArticles)
        THEN /\ runs' = (runs \ {r}) \cup
                        {[r EXCEPT !.i = r.i + 1, !.availableArticles = availableArticles]}
             /\ requests' = requests \cup
                    {[run |-> r.id, method |-> "HEAD",
                      path |-> MarkdownPath(knownArticles[r.i + 1] \o dot_md)]}
             /\ blogPage' = blogPage
        ELSE \E limitedArticles \in {Slice(SortNewestFirst(availableArticles), ArticleLimit)} :
                 /\ runs' = (runs \ {r}) \cup
                            {[r EXCEPT !.st = "done",
                                       !.availableArticles = availableArticles,
                                       !.result = limitedArticles]}
                 /\ requests' = requests
                 /\ blogPage' = UpdateBlogPageWithArticles(blogPage, limitedArticles)

\* the HEAD request resolves with response.ok
HeadOk(r) ==
    /\ r.st = "head"
    /\ BlogServed(HeadPath(r))
    /\ Continue(r, Checked(r))
    /\ checks' = checks \cup {Outcome(r, "ok")}
    /\ UNCHANGED <<location, knownArticles, now, testFiles, flakyNet, readyState,
                   blogDomReady, blogTimers>>
    /\ UNCHANGED <<tplVars, layVars, shVars>>

\* the HEAD request resolves with a status that is not ok
HeadNotOk(r) ==
    /\ r.st = "head"
    /\ ~BlogServed(HeadPath(r))
    /\ Continue(r, r.availableArticles)
    /\ checks' = checks \cup {Outcome(r, "not ok")}
    /\ UNCHANGED <<location, knownArticles, now, testFiles, flakyNet, readyState,
                   blogDomReady, blogTimers>>
    /\ UNCHANGED <<tplVars, layVars, shVars>>

\* HeadRejects, were the try block around the loop: the rejection ends
\* getAvailableArticles, and the catch of showMainBlogPage keeps the page.
HeadRejectsEndsLoop(r) ==
    /\ r.st = "head"
    /\ flakyNet
    /\ runs' = (runs \ {r}) \cup {[r EXCEPT !.st = "done"]}
    /\ checks' = checks \cup {Outcome(r, "rejected")}
    /\ UNCHANGED <<location, knownArticles, now, testFiles, flakyNet, readyState,
                   blogDomReady, blogTimers, requests, blogPage>>
    /\ UNCHANGED <<tplVars, layVars, shVars>>

\* the HEAD request rejects: the catch of the loop
HeadRejects(r) ==
    /\ r.st = "head"
    /\ flakyNet
    /\ Continue(r, r.availableArticles)
    /\ checks' = checks \cup {Outcome(r, "rejected")}
    /\ UNCHANGED <<location, knownArticles, now, testFiles, flakyNet, readyState,
                   blogDomReady, blogTimers>>
    /\ UNCHANGED <<tplVars, layVars, shVars>>

Finish(r, st) == runs' = (runs \ {r}) \cup {[r EXCEPT !.st = st]}

\* loadMarkdownFile: fetch resolves with response.ok
MarkdownFetchOk(r) ==
    /\ r.st = "fetch"
    /\ BlogServed(MarkdownPath(r.article.v \o dot_md))
    /\ Finish(r, "text")
    /\ UNCHANGED <<location, knownArticles, now, testFiles, flakyNet, readyState,
                   blogDomReady, blogTimers, requests, checks, blogPage>>
    /\ UNCHANGED <<tplVars, layVars, shVars>>

\* loadMarkdownFile: fetch rejects or resolves with a status that is not
\* ok: the catch block
MarkdownFetchFails(r) ==
    /\ r.st = "fetch"
    /\ ~BlogServed(MarkdownPath(r.article.v \o dot_md)) \/ flakyNet
    /\ Finish(r, "failed")
    /\ blogPage' = ShowNotFound(blogPage, r.article.v \o dot_md)
    /\ UNCHANGED <<location, knownArticles, now, testFiles, flakyNet, readyState,
                   blogDomReady, blogTimers, requests, checks>>
    /\ UNCHANGED <<tplVars, layVars, shVars>>

\* MarkdownTextResolves, were a render to drop its result once a later run
\* of the router has started.
MarkdownTextResolvesUnlessStale(r) ==
    /\ r.st = "text"
    /\ Finish(r, "done")
    /\ blogPage' = IF \E o \in runs : o.id > r.id THEN blogPage
                   ELSE ShowPost(blogPage, r.article.v \o dot_md)
    /\ UNCHANGED <<location, knownArticles, now, testFiles, flakyNet, readyState,
                   blogDomReady, blogTimers, requests, checks>>
    /\ UNCHANGED <<tplVars, layVars, shVars>>

\* loadMarkdownFile: response.text() resolves and the post is shown
MarkdownTextResolves(r) ==
    /\ r.st = "text"
    /\ Finish(r, "done")
    /\ blogPage' = ShowPost(blogPage, r.article.v \o dot_md)
    /\ UNCHANGED <<location, knownArticles, now, testFiles, flakyNet, readyState,
                   blogDomReady, blogTimers, requests, checks>>
    /\ UNCHANGED <<tplVars, layVars, shVars>>

\* loadMarkdownFile: response.text() rejects: the catch block
MarkdownTextFails(r) ==
    /\ r.st = "text"
    /\ flakyNet
    /\ Finish(r, "failed")
    /\ blogPage' = ShowNotFound(blogPage, r.article.v \o dot_md)
    /\ UNCHANGED <<location, knownArticles, now, testFiles, flakyNet, readyState,
                   blogDomReady, blogTimers, requests, checks>>
    /\ UNCHANGED <<tplVars, layVars, shVars>>

\* The state once the script has been evaluated: the listeners are set, and
\* the fallback has set its 1000 ms timer unless the document was loading.
InitBlog ==
    /\ TplIdle
    /\ LayIdle
    /\ ShIdle
    /\ \E in \in BlogInputs :
           /\ location = in.location
           /\ knownArticles = in.knownArticles
           /\ now = in.now
           /\ testFiles = in.testFiles
           /\ flakyNet = in.flakyNet
           /\ readyState = in.ready.readyState
           /\ blogDomReady = in.ready.dispatched
           /\ blogTimers = IF in.ready.readyState = "loading" THEN 0 ELSE 1
           /\ blogPage = in.page
    /\ runs = {}
    /\ requests = {}
    /\ checks = {}

NextBlog ==
    \/ BlogDOMContentLoaded
    \/ BlogTimerFires
    \/ Popstate
    \/ \E r \in runs : HeadOk(r)
    \/ \E r \in runs : HeadNotOk(r)
    \/ \E r \in runs : HeadRejects(r)
    \/ \E r \in runs : MarkdownFetchOk(r)
    \/ \E r \in runs : MarkdownFetchFails(r)
    \/ \E r \in runs : MarkdownTextResolves(r)
    \/ \E r \in runs : MarkdownTextFails(r)

SpecBlog == InitBlog /\ [][NextBlog]_vars

-----------------------------------------------------------------------------
(* The router's branch *)

\* the values of the 'article' parameters of the query string, in order
ArticleValues ==
    LET given == SelectSeq(URLSearchParams(location.search),
                           LAMBDA p : p.name = s_article)
    IN  [j \in 1..Len(given) |-> given[j].value]

\* a step in which initBlogRouter runs, and the run it makes
RouterStep == Cardinality(runs') = Cardinality(runs) + 1

TheRun == CHOOSE r \in runs' : r.id = Cardinality(runs')

\* The branches of one run, given whether the query string names an article:
\* off the blog no fetch and no change; on it the fetch of <article>.md, or
\* the index with its presence checks.
RouterBranches(articleGiven) ==
    RouterStep =>
        IF ~StartsWith(location.pathname, blogPath)
        THEN /\ TheRun.view = "NotBlogPath"
             /\ TheRun.st = "done"
             /\ requests' = requests
             /\ blogPage' = blogPage
        ELSE IF articleGiven
        THEN /\ TheRun.view = "ArticleView"
             /\ \E q \in requests' :
                    /\ requests' = requests \cup {q}
                    /\ q.run = TheRun.id
                    /\ q.method = "GET"
                    /\ q.path.file = ArticleValues[1] \o dot_md
        ELSE /\ TheRun.view = "IndexView"
             /\ \A q \in requests' \ requests : q.method = "HEAD"

(* C8 as claimed: a run of the router off the blog path fetches nothing and *)
(* changes nothing; on a blog path it enters ArticleView and fetches        *)
(* <article>.md if and only if the query string has an 'article' parameter, *)
(* and IndexView otherwise.                                                 *)
C8_Original_RouterBranchOnPresence == [][RouterBranches(Len(ArticleValues) > 0)]_vars

(* C8, amended: the same, where ArticleView is entered if and only if the   *)
(* query string has an 'article' parameter whose first occurrence has a     *)
(* value that is not empty.                                                 *)
C8_RouterBranchOnValue ==
    [][RouterBranches(Len(ArticleValues) > 0 /\ ArticleValues[1] # <<>>)]_vars

\* a run has entered ArticleView and issued the fetch of the article named
C8_Witness ==
    \E r \in runs :
        /\ r.view = "ArticleView"
        /\ \E q \in requests :
               /\ q.run = r.id
               /\ q.method = "GET"
               /\ q.path.file = TodaysArticle \o dot_md

-----------------------------------------------------------------------------
(* The index view's list *)

\* the runs in which getAvailableArticles has returned
IndexResults == {r \in runs : r.view = "IndexView" /\ r.st = "done"}

Instant(a) == NewDate(a.isoDateTime)

NewestFirst(list) ==
    \A j \in 1..(Len(list) - 1) : ~Before(Instant(list[j]), Instant(list[j + 1]))

\* The instant n calendar months before t: the same day of the month and
\* time of day, or the last day of that month when it has no such day.
CalendarMonthsBefore(t, n) ==
    LET y == IF t[2] - n < 1 THEN t[1] - 1 ELSE t[1]
        m == IF t[2] - n < 1 THEN t[2] - n + 12 ELSE t[2] - n
        d == IF t[3] > DaysInMonth(y, m) THEN DaysInMonth(y, m) ELSE t[3]
    IN  <<y, m, d, t[4], t[5], t[6], t[7]>>

\* within the most recent 3 calendar months: not before (now - 3 months)
WithinWindow(t) == ~Before(t, CalendarMonthsBefore(now, 3))

(* C9: whatever the registry, the outcomes of the presence checks and the   *)
(* scan time, the list getAvailableArticles returns is sorted by instant,   *)
(* newest first, has at most 4 entries, and holds only entries whose        *)
(* instant is within the most recent 3 calendar months.                     *)
C9_IndexListSortedCutRecent ==
    \A r \in IndexResults :
        /\ NewestFirst(r.result)
        /\ Len(r.result) <= 4
        /\ \A j \in 1..Len(r.result) : WithinWindow(Instant(r.result[j]))

\* a list has been returned that the sort reordered and the cut shortened,
\* from a registry that also held an entry too old
C9_Witness ==
    \E r \in IndexResults :
        /\ Len(r.result) = 4
        /\ Len(r.availableArticles) > 4
        /\ r.result[1] # r.availableArticles[1]
        /\ Len(r.availableArticles) < Len(knownArticles)

\* the registry entries that are present, parsable and within the window
Qualifying ==
    {i \in 1..Len(knownArticles) :
        /\ BlogServed(MarkdownPath(knownArticles[i] \o dot_md))
        /\ ParseIsoDateTimeFromFilename(knownArticles[i]).has
        /\ IsValidDate(NewDate(knownArticles[i]))
        /\ WithinWindow(NewDate(knownArticles[i]))}

(* C10: when every presence check is answered and k registry entries are    *)
(* present, parsable and within the 3-month window, the list returned holds *)
(* exactly the min(4, k) of them with the newest instants, newest first;    *)
(* and with the registry as shipped, every file present and now =           *)
(* 2025-10-11T16:00:00.000Z, it has 4 entries, todays-article first.        *)
C10_IndexListIsTheNewestFour ==
    \A r \in IndexResults :
        /\ ~flakyNet =>
              LET k == Cardinality(Qualifying)
                  names == {r.result[j].name : j \in 1..Len(r.result)}
              IN  /\ Len(r.result) = (IF k < 4 THEN k ELSE 4)
                  /\ Cardinality(names) = Len(r.result)
                  /\ names \subseteq {knownArticles[i] : i \in Qualifying}
                  /\ NewestFirst(r.result)
                  /\ \A i \in Qualifying :
                         knownArticles[i] \notin names
                         => \A j \in 1..Len(r.result) :
                                ~Before(Instant(r.result[j]), NewDate(knownArticles[i]))
        /\ (/\ knownArticles = KnownArticles
            /\ now = NowOct
            /\ testFiles = Range(KnownArticles))
           => /\ Len(r.result) = 4
              /\ r.result[1].name = TodaysArticle

-----------------------------------------------------------------------------
(* Registry names with no instant *)

\* the name starts with YYYY-MM-DDTHH:mm:ss.sssZ, and the instant it writes
\* is a date
HasParsableInstant(filename) ==
    /\ Len(filename) >= 24
    /\ \A i \in {1, 2, 3, 4, 6, 7, 9, 10, 12, 13, 15, 16, 18, 19, 21, 22, 23} :
           filename[i] \in Range(Digits)
    /\ filename[5] = "-" /\ filename[8] = "-" /\ filename[11] = "T"
    /\ filename[14] = ":" /\ filename[17] = ":" /\ filename[20] = "."
    /\ filename[24] = "Z"
    /\ IsValidDate(NewDate(filename))

\* the article a card of the index links to: what follows '/blog/?article='
CardArticle(card) == Substring(card.url, 15)

ResultNames(r) == {r.result[j].name : j \in 1..Len(r.result)}

(* C11: a registry name that does not start with a parsable instant of the  *)
(* form YYYY-MM-DDTHH:mm:ss.sssZ is in no list getAvailableArticles returns *)
(* and on no card of the index; and whatever names the registry holds,      *)
(* every entry has its presence checked, and every entry that is present,   *)
(* parsable and not before the cut-off is in the list returned, unless 4    *)
(* entries at least as new are.                                             *)
C11_UnparsableNamesExcludedOthersChecked ==
    /\ \A j \in 1..Len(blogPage.cards) : HasParsableInstant(CardArticle(blogPage.cards[j]))
    /\ \A r \in IndexResults :
          /\ \A n \in ResultNames(r) : HasParsableInstant(n)
          /\ \A i \in 1..Len(knownArticles) :
                /\ \E q \in requests :
                       /\ q.run = r.id
                       /\ q.method = "HEAD"
                       /\ q.path.file = knownArticles[i] \o dot_md
                /\ (/\ ~flakyNet
                    /\ knownArticles[i] \in testFiles
                    /\ HasParsableInstant(knownArticles[i])
                    /\ ~Before(NewDate(knownArticles[i]), r.threeMonthsAgo))
                   => \/ knownArticles[i] \in ResultNames(r)
                      \/ /\ Len(r.result) = 4
                         /\ \A j \in 1..4 :
                                ~Before(Instant(r.result[j]), NewDate(knownArticles[i]))

\* the index shows an article that the registry lists behind a name with no
\* instant and behind a name whose instant is no date
C11_Witness ==
    \E r \in IndexResults :
        \E i, j, k \in 1..Len(knownArticles) :
            /\ i < k /\ j < k
            /\ Len(knownArticles[i]) < 24
            /\ Len(knownArticles[j]) >= 24
            /\ ~HasParsableInstant(knownArticles[j])
            /\ knownArticles[k] \in ResultNames(r)
            /\ \E c \in Range(blogPage.cards) : CardArticle(c) = knownArticles[k]

-----------------------------------------------------------------------------
(* The article view *)

ArticleRuns == {r \in runs : r.view = "ArticleView"}

\* the file loadMarkdownFile was called with, and whether the server holds it
\* where the page asks for it
FileOf(r) == r.article.v \o dot_md

Exists(r) == BlogServed(MarkdownPath(FileOf(r)))

\* this step settles the promise of loadMarkdownFile call r: fulfilled after
\* the try block ("done") or after the catch block ("failed")
Returns(r, st) ==
    r.st \in {"fetch", "text"} /\ r \notin runs' /\ [r EXCEPT !.st = st] \in runs'

\* the region holds the back-navigation link and the converted text of the file
HoldsPost(region, filename, markedLoaded) ==
    /\ region.kind = "post"
    /\ region.back
    /\ region.body = [by |-> IF markedLoaded THEN "marked.parse" ELSE "pre",
                      of |-> [textOf |-> filename]]

\* the region holds the back-navigation link and the not-found panel
HoldsNotFound(region, filename) ==
    /\ region.kind = "notfound"
    /\ region.back
    /\ region.file = filename
    /\ region.body.by = "none"

CanReturn(r) ==
    ENABLED (\/ MarkdownFetchOk(r) \/ MarkdownFetchFails(r)
             \/ MarkdownTextResolves(r) \/ MarkdownTextFails(r))

(* C12: on a page that has the main content region, a loadMarkdownFile call *)
(* whose fetch succeeds puts the converted body and the back-navigation     *)
(* link into the region; a call whose fetch fails, as it does for an        *)
(* article that does not exist, puts the not-found panel and the            *)
(* back-navigation link there; and every call returns normally, after the   *)
(* try block or after the catch block.                                      *)
C12_ArticleShownOrNotFound ==
    /\ [][\A r \in ArticleRuns :
             /\ Returns(r, "done")
                => /\ Exists(r)
                   /\ blogPage.container
                      => HoldsPost(blogPage'.main, FileOf(r), blogPage.marked)
             /\ Returns(r, "failed")
                => /\ ~Exists(r) \/ flakyNet
                   /\ blogPage.container => HoldsNotFound(blogPage'.main, FileOf(r))
             /\ (r.st = "fetch" /\ ~Exists(r) /\ r \notin runs')
                => Returns(r, "failed")]_vars
    /\ [](\A r \in ArticleRuns :
             /\ r.st \in {"fetch", "text", "done", "failed"}
             /\ r.st \in {"fetch", "text"} => CanReturn(r))

\* the article that exists is shown with its back link
C12_Witness ==
    \E r \in ArticleRuns :
        /\ r.st = "done"
        /\ FileOf(r) = TodaysArticle \o dot_md
        /\ HoldsPost(blogPage.main, FileOf(r), TRUE)

-----------------------------------------------------------------------------
(* The deployment script (the shell part of deploy.sh, which ends with the  *)
(* call of main).  The script runs under `set -e`: a simple command that    *)
(* returns a non-zero status outside the condition of an `if` ends the      *)
(* script with that status.                                                 *)

\* the configuration the script starts with
Configuration ==
    [BUCKET_NAME |-> "", AWS_REGION |-> "us-east-1", PROFILE_NAME |-> "default",
     LOCAL_DIR |-> "."]

\* the variable an option of the case statement sets
OptionVariable(opt) ==
    IF opt \in {"-b", "--bucket"} THEN "BUCKET_NAME"
    ELSE IF opt \in {"-r", "--region"} THEN "AWS_REGION"
    ELSE IF opt \in {"-p", "--profile"} THEN "PROFILE_NAME"
    ELSE IF opt \in {"-d", "--dir"} THEN "LOCAL_DIR"
    ELSE ""

\* The exit status of an aws command: 0, or a non-zero status of the AWS
\* CLI (1: an S3 transfer command failed; 254: the service returned an
\* error).
AwsStatuses == {0, 1, 254}

\* what `read` gets from the terminal: a line, or end of input (read then
\* returns 1)
EndOfInput == "<eof>"
Replies == {"y", "Y", "n", "", EndOfInput}
BucketLines == {"my-bucket", "", EndOfInput}

\* [[ $REPLY =~ ^[Yy]$ ]]
Yes(reply) == reply \in {"y", "Y"}

CommandLines ==
    {<<>>,
     <<"-b", "my-bucket">>,
     <<"--bucket", "my-bucket", "-r", "us-west-2">>,
     <<"-b", "my-bucket", "-p", "production", "-d", "site">>,
     <<"-h">>,
     <<"-b", "my-bucket", "--help">>,
     <<"-b", "my-bucket", "-x">>,
     <<"--zap">>,
     <<"my-bucket">>,
     <<"-b">>,
     <<"-b", "">>,
     <<"-r", "us-west-2">>}

\* exit, or the end of the script
Exit(status, ended) ==
    /\ shPc' = "exited"
    /\ shExit' = status
    /\ shEnded' = ended

Goto(function) ==
    /\ shPc' = function
    /\ UNCHANGED <<shExit, shEnded>>

\* The first non-zero status of a sequence of commands; 0 when there is none.
FirstFailure(statuses) ==
    LET failed == {i \in 1..Len(statuses) : statuses[i] # 0}
    IN  IF failed = {} THEN 0
        ELSE statuses[CHOOSE i \in failed : \A j \in failed : i <= j]

\* one turn of the loop that parses the command line
ParseArguments ==
    /\ shPc = "parse"
    /\ argv # <<>>
    /\ LET opt == argv[1]
           value == IF Len(argv) >= 2 THEN argv[2] ELSE ""
       IN  IF OptionVariable(opt) # ""
           THEN /\ shell' = [shell EXCEPT ![OptionVariable(opt)] = value]
                /\ IF Len(argv) >= 2
                   THEN argv' = SubSeq(argv, 3, Len(argv)) /\ Goto("parse")
                   ELSE argv' = argv /\ Exit(1, "shift")
           ELSE IF opt \in {"-h", "--help"}
           THEN UNCHANGED <<shell, argv>> /\ Exit(0, "help")
           ELSE UNCHANGED <<shell, argv>> /\ Exit(1, "unknown option")
    /\ UNCHANGED hasAws
    /\ UNCHANGED <<tplVars, layVars, blogVars>>

\* the loop ends and main is called
Main ==
    /\ shPc = "parse"
    /\ argv = <<>>
    /\ Goto("check_aws_cli")
    /\ UNCHANGED <<argv, shell, hasAws>>
    /\ UNCHANGED <<tplVars, layVars, blogVars>>

\* check_aws_cli
CheckAwsCli ==
    /\ shPc = "check_aws_cli"
    /\ IF ~hasAws THEN Exit(1, "AWS CLI missing")
       ELSE \E version \in AwsStatuses :
                IF version # 0 THEN Exit(version, "aws --version")
                ELSE Goto("configure_aws")
    /\ UNCHANGED <<argv, shell, hasAws>>
    /\ UNCHANGED <<tplVars, layVars, blogVars>>

\* configure_aws
ConfigureAws ==
    /\ shPc = "configure_aws"
    /\ \E configured \in BOOLEAN, reply \in Replies, configure \in AwsStatuses :
           IF configured /\ reply = EndOfInput THEN Exit(1, "read")
           ELSE IF configured /\ ~Yes(reply) THEN Goto("set_bucket_name")
           ELSE IF configure # 0 THEN Exit(configure, "aws configure")
           ELSE Goto("set_bucket_name")
    /\ UNCHANGED <<argv, shell, hasAws>>
    /\ UNCHANGED <<tplVars, layVars, blogVars>>

\* set_bucket_name
SetBucketName ==
    /\ shPc = "set_bucket_name"
    /\ IF shell.BUCKET_NAME # ""
       THEN shell' = shell /\ Goto("check_bucket_exists")
       ELSE \E line \in BucketLines :
                IF line = EndOfInput THEN shell' = shell /\ Exit(1, "read")
                ELSE /\ shell' = [shell EXCEPT !.BUCKET_NAME = line]
                     /\ IF line = "" THEN Exit(1, "empty bucket name")
                        ELSE Goto("check_bucket_exists")
    /\ UNCHANGED <<argv, hasAws>>
    /\ UNCHANGED <<tplVars, layVars, blogVars>>

\* check_bucket_exists
CheckBucketExists ==
    /\ shPc = "check_bucket_exists"
    /\ \E ls \in AwsStatuses, reply \in Replies :
           IF ls = 0 THEN Goto("configure_website_hosting")
           ELSE IF reply = EndOfInput THEN Exit(1, "read")
           ELSE IF Yes(reply) THEN Goto("create_bucket")
           ELSE Exit(1, "no bucket")
    /\ UNCHANGED <<argv, shell, hasAws>>
    /\ UNCHANGED <<tplVars, layVars, blogVars>>

\* create_bucket: `aws s3 mb` is the last command of the `if` on the region,
\* not its condition, so a failure ends the script before `$?` is tested
CreateBucket ==
    /\ shPc = "create_bucket"
    /\ \E mb \in AwsStatuses :
           IF mb # 0 THEN Exit(mb, "bucket creation")
           ELSE Goto("configure_website_hosting")
    /\ UNCHANGED <<argv, shell, hasAws>>
    /\ UNCHANGED <<tplVars, layVars, blogVars>>

\* configure_website_hosting: `aws s3 website`, then the policy file,
\* `aws s3api put-bucket-policy` and rm
ConfigureWebsiteHosting ==
    /\ shPc = "configure_website_hosting"
    /\ \E website \in AwsStatuses, policy \in AwsStatuses :
           IF website # 0 THEN Exit(website, "website configuration")
           ELSE IF policy # 0 THEN Exit(policy, "bucket policy")
           ELSE Goto("sync_to_s3")
    /\ UNCHANGED <<argv, shell, hasAws>>
    /\ UNCHANGED <<tplVars, layVars, blogVars>>

\* sync_to_s3: four `aws s3 sync` commands
SyncToS3 ==
    /\ shPc = "sync_to_s3"
    /\ \E sync \in [1..4 -> AwsStatuses] :
           IF FirstFailure(sync) # 0 THEN Exit(FirstFailure(sync), "sync")
           ELSE Goto("set_content_types")
    /\ UNCHANGED <<argv, shell, hasAws>>
    /\ UNCHANGED <<tplVars, layVars, blogVars>>

\* set_content_types: three `aws s3 cp` commands
SetContentTypes ==
    /\ shPc = "set_content_types"
    /\ \E cp \in [1..3 -> AwsStatuses] :
           IF FirstFailure(cp) # 0 THEN Exit(FirstFailure(cp), "content types")
           ELSE Goto("show_website_url")
    /\ UNCHANGED <<argv, shell, hasAws>>
    /\ UNCHANGED <<tplVars, layVars, blogVars>>

\* show_website_url, the return of main and the end of the script
ShowWebsiteUrl ==
    /\ shPc = "show_website_url"
    /\ Exit(0, "deployed")
    /\ UNCHANGED <<argv, shell, hasAws>>
    /\ UNCHANGED <<tplVars, layVars, blogVars>>

InitDeploy ==
    /\ TplIdle
    /\ LayIdle
    /\ BlogIdle
    /\ argv \in CommandLines
    /\ shell = Configuration
    /\ hasAws \in BOOLEAN
    /\ shPc = "parse"
    /\ shExit = -1
    /\ shEnded = ""

NextDeploy ==
    \/ ParseArguments
    \/ Main
    \/ CheckAwsCli
    \/ ConfigureAws
    \/ SetBucketName
    \/ CheckBucketExists
    \/ CreateBucket
    \/ ConfigureWebsiteHosting
    \/ SyncToS3
    \/ SetContentTypes
    \/ ShowWebsiteUrl

SpecDeploy == InitDeploy /\ [][NextDeploy]_vars

\* the failures the script checks for
CheckedFailures ==
    {"AWS CLI missing", "empty bucket name", "unknown option", "bucket creation",
     "website configuration", "bucket policy", "sync"}

(* C13: the script ends with status 0 when every step has succeeded, and    *)
(* with status 1 when it ends at a checked failure: AWS CLI missing, empty  *)
(* bucket name, unknown option, or a failed bucket creation, website        *)
(* configuration, bucket policy or sync.                                    *)
C13_ExitCodes ==
    shPc = "exited" =>
        /\ shEnded = "deployed" => shExit = 0
        /\ shEnded \in CheckedFailures => shExit = 1

-----------------------------------------------------------------------------
(* What the template engine writes *)

(* C14: for every name other than layout, and wherever the page is, what a  *)
(* successful load writes into the insertion points it selects is the       *)
(* fetched template text, unchanged.                                        *)
C14_ContentVerbatim ==
    [][\A c \in loads :
          (c.name # s_layout /\ Ends(c, "done"))
          => \A e \in Range(QuerySelectorAll(doc', c.name)) :
                 e.kids = Parse(templates[c.name])]_vars

-----------------------------------------------------------------------------
(* The values renderLayoutTemplate substitutes *)

\* the value of a data attribute when it is given, the default otherwise
Supplied(attr, default) == IF attr.has THEN attr.v ELSE default

SuppliedTitle == Supplied(layElement.data.title, <<Txt("Page")>>)
SuppliedHead == Supplied(layElement.data.head, <<>>)
SuppliedScripts == Supplied(layElement.data.scripts, <<>>)
SuppliedContent == Serialize(layElement.kids)

\* the text holds none of the patterns replace() expands in a replacement
NoDollarPattern(text) == \A i \in 1..Len(text) : text[i].v \notin {"$$", "$&"}

PlaceholderLike(text) ==
    \E i \in 1..Len(text) :
        text[i].v \in {"{{title}}", "{{head}}", "{{content}}", "{{scripts}}"}

(* C15: when a value (title, head, content or scripts) holds text that      *)
(* looks like a placeholder, the rendered text is the layout text with each *)
(* placeholder of the layout replaced by its value as supplied: no          *)
(* replacement touches text that a value brought in.                        *)
C15_ValuesInsertedAsSupplied ==
    (/\ layPc = "done"
     /\ layElement.data.title.has => layElement.data.title.v # <<>>
     /\ \A v \in {SuppliedTitle, SuppliedHead, SuppliedContent, SuppliedScripts} :
            NoDollarPattern(v)
     /\ \E v \in {SuppliedTitle, SuppliedHead, SuppliedContent, SuppliedScripts} :
            PlaceholderLike(v))
    => layRendered = Substituted(layTemplate, SuppliedTitle, SuppliedHead,
                                 SuppliedContent, SuppliedScripts)

\* what replace() puts in the place of the placeholder for a data attribute
Inserted(attr, default, placeholder) == Expand(OrDefault(attr, default), placeholder)

\* The layout text with the first occurrence of each placeholder replaced,
\* every other piece of it as fetched.
FirstOccurrencesReplaced ==
    Substituted(layTemplate,
                Inserted(layElement.data.title, <<Txt("Page")>>, "{{title}}"),
                Inserted(layElement.data.head, <<>>, "{{head}}"),
                Expand(Serialize(layElement.kids), "{{content}}"),
                Inserted(layElement.data.scripts, <<>>, "{{scripts}}"))

(* C16: the rendered text is the fetched layout text in which the first     *)
(* occurrence of each of the four placeholders is replaced and every later  *)
(* occurrence is left as it is; a placeholder the layout text does not hold *)
(* changes nothing, and the call completes.                                 *)
C16_FirstOccurrenceOnly ==
    /\ layPc = "call" => ENABLED RenderLayoutTemplate
    /\ layPc = "done" => layRendered = FirstOccurrencesReplaced

(* C17: a layout variable takes its default (title "Page", head "", scripts *)
(* "") exactly when its data attribute is absent from the insertion point,  *)
(* and the value of the attribute whenever the attribute is present: for    *)
(* values that replace() inserts as they are, the rendered text is the      *)
(* layout text with those values in the place of the placeholders.          *)
C17_DefaultsExactlyWhenAbsent ==
    (/\ layPc = "done"
     /\ \A v \in {SuppliedTitle, SuppliedHead, SuppliedContent, SuppliedScripts} :
            ~PlaceholderLike(v) /\ NoDollarPattern(v))
    => layRendered = Substituted(layTemplate, SuppliedTitle, SuppliedHead,
                                 SuppliedContent, SuppliedScripts)

-----------------------------------------------------------------------------
(* The names and the fetches of a scan pass *)

(* C18: every name in the name set of a scan pass is made of word           *)
(* characters only, whether a tag, a class or an id gave it.                *)
C18_NamesAreWordCharacters ==
    [][ScanStep => \A n \in passes'[Len(passes')] :
                       \A i \in 1..Len(n) : IsWordChar(n[i])]_vars

\* the fetches this step issues
NewFetches == SubSeq(fetches', Len(fetches) + 1, Len(fetches'))

FetchesOf(log, p, n) == {i \in 1..Len(log) : log[i].pass = p /\ log[i].path.file = n}

(* C19: a scan pass issues exactly one fetch for each name of its name set  *)
(* and no other fetch, whether or not an earlier pass fetched the name; and *)
(* no fetch is issued outside a scan pass.                                  *)
C19_OneFetchPerNamePerPass ==
    [][/\ ScanStep =>
            LET p == Len(passes')
            IN  /\ \A n \in passes'[p] : Cardinality(FetchesOf(NewFetches, p, n)) = 1
                /\ \A i \in 1..Len(NewFetches) :
                       NewFetches[i].pass = p /\ NewFetches[i].path.file \in passes'[p]
       /\ ~ScanStep => fetches' = fetches]_vars

\* a name that the page holds at several insertion points has been fetched
\* once in the first pass and once more in the second
C19_Witness ==
    /\ Len(passes) >= 2
    /\ \E n \in passes[1] \cap passes[2] :
           /\ Len(InsertionPointsOf(Parse(page), n)) >= 2
           /\ Cardinality(FetchesOf(fetches, 1, n)) = 1
           /\ Cardinality(FetchesOf(fetches, 2, n)) = 1

-----------------------------------------------------------------------------
(* Loads that outlast a layout render *)

\* the document has been replaced since loadTemplate call c began
Outlasted(c) == GenerationOf(c) < replaced

(* C20: when a load that began before a layout render replaced the document *)
(* completes after it, the content, or the error placeholder on a failure,  *)
(* is in the elements the current document has for the name: the elements   *)
(* are queried once the fetch has settled.                                  *)
C20_WritesIntoCurrentDocument ==
    [][\A c \in loads :
          (c.name # s_layout /\ Outlasted(c))
          => /\ Ends(c, "done")
                => \A e \in Range(QuerySelectorAll(doc', c.name)) :
                       e.kids = Parse(AdjustedContent(templates[c.name]))
             /\ Ends(c, "failed")
                => \A e \in Range(QuerySelectorAll(doc', c.name)) :
                       e.kids = Parse(ErrorPlaceholder(c.name))]_vars

\* a load of the first pass has completed after the layout render and the
\* header of the layout holds its content, before any re-scan
C20_Witness ==
    /\ Len(passes) = 1
    /\ replaced > 0
    /\ \E c \in loads :
           /\ c.name = s_header
           /\ c.st = "done"
           /\ Outlasted(c)
           /\ QuerySelectorAll(doc, c.name) # <<>>
           /\ \A e \in Range(QuerySelectorAll(doc, c.name)) :
                  e.kids = Parse(AdjustedContent(templates[c.name]))

-----------------------------------------------------------------------------
(* Layout renders of one pass *)

\* this step is the completion of the layout load of a pass: the only step
\* of the pass that renders (a pass fetches a name once)
LayoutLoadEnds(c) == c.name = s_layout /\ Ends(c, "done")

(* C21: within one scan pass the layout is rendered at most once for each  *)
(* layout insertion point, and the document is replaced, and a re-scan     *)
(* scheduled, at most once in the pass, however many layout insertion      *)
(* points the page has.                                                    *)
C21_OneReplacementPerPass ==
    [][\A c \in loads :
          LayoutLoadEnds(c)
          => /\ replaced' - replaced <= Len(QuerySelectorAll(doc, s_layout))
             /\ replaced' - replaced <= 1
             /\ timers' - timers <= 1]_vars

-----------------------------------------------------------------------------
(* The scan / render / re-scan chain of a page with one layout *)

\* the page has one layout insertion point, with none inside it, and the
\* layout template has none
OneLayoutPage ==
    /\ Len(InsertionPointsOf(Parse(page), s_layout)) = 1
    /\ s_layout \in DOMAIN templates
    /\ InsertionPointsOf(Parse(templates[s_layout]), s_layout) = <<>>

\* a layout load has completed, and so has rendered
LayoutRendered == \E c \in loads : c.name = s_layout /\ c.st = "done"

\* the chain has come to rest after one replacement and one re-scan (and one
\* more scan for each later call of the pipeline)
AtRestAfterOneRescan ==
    /\ Quiescent
    /\ replaced = 1
    /\ Len(passes) = 2 + calls

(* C22: on a page with one layout insertion point whose content and layout *)
(* template hold no layout insertion point, the chain replaces the         *)
(* document exactly once and re-scans exactly once, and then comes to rest *)
(* (no pending timer, no fetch in flight) once every fetch has settled.    *)
C22_OneRescanThenQuiescent ==
    /\ [](OneLayoutPage
          => /\ replaced = (IF LayoutRendered THEN 1 ELSE 0)
             /\ Len(passes) <= replaced + 1 + calls)
    /\ (OneLayoutPage /\ LayoutRendered) ~> AtRestAfterOneRescan

\* the chain of such a page is at rest, before any further call, with the
\* loads of the re-scan completed
C22_Witness ==
    /\ OneLayoutPage
    /\ LayoutRendered
    /\ AtRestAfterOneRescan
    /\ calls = 0
    /\ \E c \in loads : c.pass = 2 /\ c.st = "done"

-----------------------------------------------------------------------------
(* The promise of a pass *)

\* the loadTemplate calls of pass p
LoadsOf(p) == {c \in loads : c.pass = p}

\* The promise loadAllTemplates returns for pass p: it awaits
\* Promise.all(loadPromises), which rejects as soon as one loadTemplate call
\* rejects and is fulfilled once all of them are.
PromiseOfPass(p) ==
    IF \E c \in LoadsOf(p) : c.st = "threw" THEN "rejected"
    ELSE IF \A c \in LoadsOf(p) : ~Pending(c) THEN "fulfilled"
    ELSE "pending"

(* C23: the promise loadAllTemplates returns settles only after every      *)
(* loadTemplate call of its pass has settled, with the content injected or *)
(* the error placeholder written, and a failed template fetch never makes  *)
(* it reject.                                                              *)
C23_SettlesAfterEveryLoad ==
    \A p \in 1..Len(passes) :
        /\ PromiseOfPass(p) # "pending"
               => \A c \in LoadsOf(p) : c.st \in {"done", "failed"}
        /\ PromiseOfPass(p) # "rejected"

-----------------------------------------------------------------------------
(* Presence checks that fail *)

\* how the presence check of entry i of run r settled, if it has
OutcomesOf(r, i) == {k.outcome : k \in {x \in checks : x.run = r.id /\ x.i = i}}

\* the presence check of entry i of run r came back not ok or was rejected
CheckFailed(r, i) == OutcomesOf(r, i) \cap {"not ok", "rejected"} # {}

\* the registry lists the name of entry i once
ListedOnce(i) == \A j \in 1..Len(knownArticles) : knownArticles[j] = knownArticles[i] => j = i

(* C24: in the index view an entry whose presence check comes back with a   *)
(* status that is not ok, or is rejected by a network error, is not in the  *)
(* list; every other entry is still checked, and is in the list when it is  *)
(* present, parsable and not before the cut-off, unless 4 entries at least  *)
(* as new are.                                                              *)
C24_FailedCheckExcludesOnlyItsEntry ==
    \A r \in IndexResults :
        \A i \in 1..Len(knownArticles) :
            /\ OutcomesOf(r, i) # {}
            /\ (CheckFailed(r, i) /\ ListedOnce(i)) => knownArticles[i] \notin ResultNames(r)
            /\ (/\ "ok" \in OutcomesOf(r, i)
                /\ HasParsableInstant(knownArticles[i])
                /\ ~Before(NewDate(knownArticles[i]), r.threeMonthsAgo))
               => \/ knownArticles[i] \in ResultNames(r)
                  \/ /\ Len(r.result) = 4
                     /\ \A j \in 1..4 :
                            ~Before(Instant(r.result[j]), NewDate(knownArticles[i]))

\* a check was rejected, one came back not ok, and an entry listed behind
\* both is in the list and on a card
C24_Witness ==
    \E r \in IndexResults :
        \E i, j, k \in 1..Len(knownArticles) :
            /\ i < k /\ j < k
            /\ "rejected" \in OutcomesOf(r, i)
            /\ "not ok" \in OutcomesOf(r, j)
            /\ "ok" \in OutcomesOf(r, k)
            /\ knownArticles[k] \in ResultNames(r)
            /\ \E c \in Range(blogPage.cards) : CardArticle(c) = knownArticles[k]

-----------------------------------------------------------------------------
(* The order of the presence checks *)

IndexRuns == {r \in runs : r.view = "IndexView"}

\* the entries whose presence check run r has issued, and those whose check
\* has settled
IssuedBy(r) ==
    {i \in 1..Len(knownArticles) :
        \E q \in requests : /\ q.run = r.id
                            /\ q.method = "HEAD"
                            /\ q.path = MarkdownPath(knownArticles[i] \o dot_md)}

SettledFor(r) == {k.i : k \in {x \in checks : x.run = r.id}}

InFlight(r) == IssuedBy(r) \ SettledFor(r)

(* C25: within one run of getAvailableArticles the presence checks are     *)
(* issued one after another in registry order: at most one of them is in   *)
(* flight at any time, and the check of entry i+1 is issued only once the  *)
(* check of entry i has settled.                                           *)
C25_ChecksOneAfterAnother ==
    \A r \in IndexRuns :
        /\ \E n \in 1..Len(knownArticles) : IssuedBy(r) = 1..n
        /\ SettledFor(r) \subseteq IssuedBy(r)
        /\ Cardinality(InFlight(r)) <= 1
        /\ \A i \in IssuedBy(r) : (i + 1) \in IssuedBy(r) => i \in SettledFor(r)

\* two runs are under way, each with one check in flight, one of them past
\* its first entry
C25_Witness ==
    \E r, o \in IndexRuns :
        /\ r.id # o.id
        /\ Cardinality(InFlight(r)) = 1
        /\ Cardinality(InFlight(o)) = 1
        /\ \E i \in InFlight(r) : i >= 2 /\ (i - 1) \in SettledFor(r)

-----------------------------------------------------------------------------
(* How often the router runs *)

\* the runs a page load causes (the 500 ms timer of the listener, the
\* 1000 ms timer of the fallback), and the runs popstate events cause
LoadRuns == {r \in runs : r.by = "timer"}

PopstateRuns == {r \in runs : r.by = "popstate"}

\* the page load has nothing left to run: DOMContentLoaded has been dispatched
\* and no timer is pending
LoadSettled == blogDomReady /\ blogTimers = 0

\* this step is the popstate listener running
PopstateStep == Cardinality(PopstateRuns') = Cardinality(PopstateRuns) + 1

(* C26: initBlogRouter runs exactly once per page load, whatever            *)
(* document.readyState is when the script is evaluated, and exactly once    *)
(* more for every popstate event, from scratch and against the URL of that  *)
(* moment.                                                                  *)
C26_RouterRunsOncePerLoad ==
    /\ [](Cardinality(LoadRuns) <= 1)
    /\ [](LoadSettled => Cardinality(LoadRuns) = 1)
    /\ [][PopstateStep
          => /\ RouterStep
             /\ TheRun.by = "popstate"
             /\ TheRun.availableArticles = <<>>
             /\ TheRun.view = (IF ~IsBlogPath(location.pathname) THEN "NotBlogPath"
                               ELSE IF Truthy(Get(URLSearchParams(location.search),
                                                  s_article))
                               THEN "ArticleView" ELSE "IndexView")]_vars

-----------------------------------------------------------------------------
(* Renders that overlap *)

\* run r is waiting for a fetch or for the text of a response
InFlightRun(r) == r.st \in {"head", "fetch", "text"}

\* this step takes run r on: to its next presence check or the end of the
\* scan, from the fetch to the text of the response, or to its end
Advances(r) ==
    \E d \in runs' :
        /\ d.id = r.id
        /\ r.st = "head" => (d.st = "head" /\ d.i = r.i + 1) \/ d.st = "done"
        /\ r.st = "fetch" => d.st \in {"text", "failed"}
        /\ r.st = "text" => d.st \in {"done", "failed"}

\* this step ends getAvailableArticles of run r, and showMainBlogPage
\* updates the page
IndexReturns(r) ==
    /\ r.view = "IndexView"
    /\ r.st = "head"
    /\ \E d \in runs' : d.id = r.id /\ d.st = "done"

\* the list run r has returned, once this step has ended it
ResultOf(r) == (CHOOSE d \in runs' : d.id = r.id).result

\* the grid holds one card for each article of the list, in its order
HoldsCards(pg, articles) ==
    /\ Len(pg.cards) = Len(articles)
    /\ \A j \in 1..Len(articles) : pg.cards[j].url = articles[j].url

(* C27: a popstate event that runs the router while an earlier render is   *)
(* in flight does not abort that render: the run stays as it is, only its  *)
(* own fetches take it on, and it writes its result into the page when it  *)
(* ends, so the page holds the output of the render that ended last, which *)
(* need not be the one the latest navigation started.                      *)
C27_EarlierRenderStillWrites ==
    /\ [][PopstateStep => runs \subseteq runs']_vars
    /\ [][\A r \in runs : (InFlightRun(r) /\ r \notin runs') => Advances(r)]_vars
    /\ [](\A r \in ArticleRuns : InFlightRun(r) => CanReturn(r))
    /\ [][\A r \in runs :
             /\ (r.view = "ArticleView" /\ Returns(r, "done") /\ blogPage.container)
                => HoldsPost(blogPage'.main, FileOf(r), blogPage.marked)
             /\ (r.view = "ArticleView" /\ Returns(r, "failed") /\ blogPage.container)
                => HoldsNotFound(blogPage'.main, FileOf(r))
             /\ (IndexReturns(r) /\ blogPage.container /\ blogPage.grid)
                => HoldsCards(blogPage', ResultOf(r))]_vars

\* the render of the page load has ended after the render of a later
\* popstate event: that one had shown the post, and the page now holds the
\* not-found panel of the earlier one
C27_Witness ==
    \E r, o \in ArticleRuns :
        /\ r.by = "timer" /\ o.by = "popstate"
        /\ r.id < o.id
        /\ r.st = "failed" /\ o.st = "done"
        /\ HoldsNotFound(blogPage.main, FileOf(r))

-----------------------------------------------------------------------------
(* The index on a page without the container region *)

\* the page lacks main .container, or the container lacks .feature-grid
RegionAbsent(pg) == ~pg.container \/ ~pg.grid

(* C28: when main .container, or its .feature-grid, is absent from the     *)
(* page, updateBlogPageWithArticles leaves the page as it is (no cards, the *)
(* heading not updated) and raises no error: showMainBlogPage ends          *)
(* normally.                                                                *)
C28_AbsentRegionIsNoOp ==
    [][\A r \in runs :
          (IndexReturns(r) /\ RegionAbsent(blogPage))
          => /\ blogPage' = blogPage
             /\ \E d \in runs' : d.id = r.id /\ d.st = "done" /\ d.result = ResultOf(r)]_vars

\* a scan has returned articles on a page that has the container and the
\* heading but no feature grid, and the page is as served
C28_Witness ==
    \E r \in IndexResults :
        /\ r.result # <<>>
        /\ blogPage.container /\ ~blogPage.grid /\ blogPage.heading
        /\ blogPage.cards = <<>>
        /\ blogPage.count = -1

-----------------------------------------------------------------------------
(* A blog page under the layout: the template engine and the router together *)

\* renderLayoutTemplate on a page whose regions the router has written:
\* content = element.innerHTML carries what is inside the insertion point
\* into the rendered text, and document.documentElement.innerHTML = ...
\* replaces everything else, the title in the head included, which then
\* holds the data-title of the insertion point.  The container of the blog
\* page is taken to be inside the insertion point.
AfterLayoutRender(pg) == [pg EXCEPT !.title = NoRegion]

\* element.innerHTML = `<div class="template-error">...` on the layout
\* insertion point: what was inside it is gone.
AfterPlaceholder(pg) ==
    [pg EXCEPT !.container = FALSE, !.grid = FALSE, !.heading = FALSE,
               !.main = NoRegion, !.cards = <<>>, !.count = -1]

\* what the catch block of loadTemplate call c leaves of the regions
AfterCatch(c, pg) ==
    IF c.name = s_layout /\ SelectorValid(c.name) /\ QuerySelectorAll(doc, c.name) # <<>>
    THEN AfterPlaceholder(pg) ELSE pg

\* The browser dispatches DOMContentLoaded: the listener of the template
\* script sets its 100 ms timer and the listener of the blog script its
\* 500 ms timer.
SiteDOMContentLoaded ==
    /\ ~domReady
    /\ domReady' = TRUE
    /\ timers' = timers + 1
    /\ blogDomReady' = TRUE
    /\ blogTimers' = blogTimers + 1
    /\ UNCHANGED <<script, pathname, flaky, templates, page, doc, passes, loads, fetches,
                   calls, prevDoc, replaced>>
    /\ UNCHANGED <<location, knownArticles, now, testFiles, flakyNet, readyState,
                   runs, requests, checks, blogPage>>
    /\ UNCHANGED <<layVars, shVars>>

\* the 500 ms timer fires after the 100 ms timer set in the same dispatch
SiteBlogTimerFires ==
    /\ passes # <<>>
    /\ BlogTimerFires

\* FetchFails on the blog page
SiteFetchFails(c) ==
    /\ c.st = "fetch"
    /\ ~Served(TemplatePath(c.name)) \/ flaky
    /\ Catch(c)
    /\ blogPage' = AfterCatch(c, blogPage)
    /\ UNCHANGED <<script, pathname, flaky, templates, page, domReady, timers,
                   passes, fetches, calls, prevDoc, replaced>>
    /\ UNCHANGED <<location, knownArticles, now, testFiles, flakyNet, readyState,
                   blogDomReady, blogTimers, runs, requests, checks>>
    /\ UNCHANGED <<layVars, shVars>>

\* TextResolves on the blog page
SiteTextResolves(c) ==
    /\ c.st = "text"
    /\ Inject(c)
    /\ blogPage' = IF replaced' > replaced THEN AfterLayoutRender(blogPage) ELSE blogPage
    /\ UNCHANGED <<script, pathname, flaky, templates, page, domReady,
                   passes, fetches, calls, prevDoc>>
    /\ UNCHANGED <<location, knownArticles, now, testFiles, flakyNet, readyState,
                   blogDomReady, blogTimers, runs, requests, checks>>
    /\ UNCHANGED <<layVars, shVars>>

\* TextFails on the blog page
SiteTextFails(c) ==
    /\ c.st = "text"
    /\ flaky
    /\ Catch(c)
    /\ blogPage' = AfterCatch(c, blogPage)
    /\ UNCHANGED <<script, pathname, flaky, templates, page, domReady, timers,
                   passes, fetches, calls, prevDoc, replaced>>
    /\ UNCHANGED <<location, knownArticles, now, testFiles, flakyNet, readyState,
                   blogDomReady, blogTimers, runs, requests, checks>>
    /\ UNCHANGED <<layVars, shVars>>

\* the query strings the blog page is opened with: the index and a post
SiteSearches == {<<>>, <<"?", "a", "r", "t", "i", "c", "l", "e", "=">> \o TodaysArticle}

\* The blog page, written for the layout, as the browser has parsed it and
\* evaluated both scripts while the document was loading.
InitSite ==
    /\ script = "js/templates.js"
    /\ pathname = blogPath
    /\ flaky \in BOOLEAN
    /\ templates = PlainTemplates
    /\ page = PageLayout
    /\ doc = Parse(page)
    /\ domReady = FALSE
    /\ timers = 0
    /\ passes = <<>>
    /\ loads = {}
    /\ fetches = <<>>
    /\ calls = 0
    /\ prevDoc = <<>>
    /\ replaced = 0
    /\ location \in {[pathname |-> blogPath, search |-> s] : s \in SiteSearches}
    /\ knownArticles = SubSeq(KnownArticles, Len(KnownArticles) - 2, Len(KnownArticles))
    /\ now = NowOct
    /\ testFiles = Range(KnownArticles) \ {KnownArticles[Len(KnownArticles) - 2]}
    /\ flakyNet = flaky
    /\ readyState = "loading"
    /\ blogDomReady = FALSE
    /\ blogTimers = 0
    /\ runs = {}
    /\ requests = {}
    /\ checks = {}
    /\ blogPage = FullPage
    /\ LayIdle
    /\ ShIdle

NextSite ==
    \/ SiteDOMContentLoaded
    \/ TimerFires
    \/ SiteBlogTimerFires
    \/ \E c \in loads : FetchOk(c)
    \/ \E c \in loads : SiteFetchFails(c)
    \/ \E c \in loads : SiteTextResolves(c)
    \/ \E c \in loads : SiteTextFails(c)
    \/ \E r \in runs : HeadOk(r)
    \/ \E r \in runs : HeadNotOk(r)
    \/ \E r \in runs : HeadRejects(r)
    \/ \E r \in runs : MarkdownFetchOk(r)
    \/ \E r \in runs : MarkdownFetchFails(r)
    \/ \E r \in runs : MarkdownTextResolves(r)
    \/ \E r \in runs : MarkdownTextFails(r)

SpecSite == InitSite /\ [][NextSite]_vars

\* a step of the template engine that writes into the document: a layout
\* replacement, a template injection or an error placeholder
TemplateWrites == doc' # doc

\* the step discards something the router has rendered: the post or the
\* message in the container, the title of the post, the cards or the count
Discards ==
    \/ blogPage.main.kind # "default" /\ blogPage'.main # blogPage.main
    \/ blogPage.title.kind # "default" /\ blogPage'.title # blogPage.title
    \/ blogPage.cards # <<>> /\ blogPage'.cards # blogPage.cards
    \/ blogPage.count # -1 /\ blogPage'.count # blogPage.count

(* C29: when initBlogRouter first runs, 500 ms after DOMContentLoaded, the *)
(* template loading, any layout replacement included, has completed, so    *)
(* that no later layout replacement or injection discards what the router  *)
(* has rendered.                                                           *)
C29_RouterRunsAfterTemplates ==
    /\ [][RouterStep => Quiescent]_vars
    /\ [][TemplateWrites => ~Discards]_vars

-----------------------------------------------------------------------------
(* The page at rest, whatever the order in which the fetches completed *)

\* A page with a header and a footer, and a page with a header beside the
\* layout, at the site root, over templates with and without an insertion
\* point inside header.html.
InitOrder ==
    /\ script = "js/templates.js"
    /\ pathname = <<"/">>
    /\ flaky \in BOOLEAN
    /\ page \in {PageIndividual, PageLayoutBeside}
    /\ \E base \in {PlainTemplates, NestedTemplates}, missing \in MissingSets :
           templates = Restrict(base, TemplateNames \ missing)
    /\ doc = Parse(page)
    /\ domReady = FALSE
    /\ timers = 0
    /\ passes = <<>>
    /\ loads = {}
    /\ fetches = <<>>
    /\ calls = 0
    /\ prevDoc = <<>>
    /\ replaced = 0
    /\ LayIdle
    /\ BlogIdle
    /\ ShIdle

SpecOrder == InitOrder /\ [][Next]_vars

\* what loadTemplate(name) makes of document d when nothing else runs
\* between its fetch and its last line, on a network that fails no request
\* for a resource that exists
LoadedInto(d, name) ==
    IF ~SelectorValid(name) THEN d
    ELSE IF ~Served(TemplatePath(name)) THEN SetInnerHTML(d, name, ErrorPlaceholder(name))
    ELSE IF name = s_layout
    THEN ForEachRender(QuerySelectorAll(d, name), templates[name], d)
    ELSE SetInnerHTML(d, name, AdjustedContent(templates[name]))

\* the 50 ms timers that call sets
TimersSetBy(d, name) ==
    IF name = s_layout /\ SelectorValid(name) /\ Served(TemplatePath(name))
    THEN Len(QuerySelectorAll(d, name)) ELSE 0

\* the loads of one pass completing one by one, in the order of their fetches
RECURSIVE OneByOne(_, _)
OneByOne(names, s) ==
    IF names = <<>> THEN s
    ELSE OneByOne(Tail(names), [doc    |-> LoadedInto(s.doc, Head(names)),
                                timers |-> s.timers + TimersSetBy(s.doc, Head(names))])

\* the passes one after another, each timer firing once the loads of the
\* pass before it have completed
RECURSIVE InTurn(_, _, _)
InTurn(d, pending, n) ==
    IF pending = 0 \/ n = MaxPasses THEN d
    ELSE LET s == OneByOne(LoadPromises(d), [doc |-> d, timers |-> pending - 1])
         IN  InTurn(s.doc, s.timers, n + 1)

\* the custom-tag insertion points of a document
CustomTagPoints(d) == {n \in Range(Elements(d)) : StartsWith(ToLowerCase(n.tag), t_)}

\* nodes, with every custom-tag insertion point among them emptied
RECURSIVE Emptied(_)
Emptied(nodes) ==
    [i \in 1..Len(nodes) |->
        IF nodes[i].k = "el" /\ StartsWith(ToLowerCase(nodes[i].tag), t_)
        THEN [nodes[i] EXCEPT !.kids = <<>>]
        ELSE [nodes[i] EXCEPT !.kids = Emptied(nodes[i].kids)]]

\* the insertion point holds its template (whatever the insertion points of
\* the template hold in their turn) or the error placeholder
HoldsTemplate(n) ==
    LET name == Substring(ToLowerCase(n.tag), 2)
    IN  \/ n.kids = Parse(ErrorPlaceholder(name))
        \/ /\ name \in DOMAIN templates
           /\ Emptied(n.kids) = Emptied(Parse(AdjustedContent(templates[name])))

\* the pipeline has come to rest after the page load, on a network that
\* fails no request for a resource that exists
AtRestAfterLoad == Quiescent /\ passes # <<>> /\ calls = 0 /\ ~flaky

(* C30: once the pipeline has come to rest, the content of the page is the *)
(* same whatever the order in which the fetches of a pass completed, and   *)
(* every custom-tag insertion point of the document, those brought in by   *)
(* an injected non-layout template included, holds its template or an      *)
(* error placeholder.                                                      *)
C30_FinalContentOrderFree ==
    AtRestAfterLoad
    => /\ doc = InTurn(Parse(page), 1, 0)
       /\ \A n \in CustomTagPoints(doc) : HoldsTemplate(n)

====
